---- MODULE Spec2Model ----
(***************************************************************************)
(* Constraint generation and model assembly of oemof.solph as found in     *)
(* src/oemof/solph/plumbing.py (Sequence, OperationalModel) and            *)
(* src/oemof/solph/components.py (GenericStorage, GenericCHP,             *)
(* ExtractionTurbineCHP and their constraint blocks).                      *)
(*                                                                         *)
(* Python values are encoded as follows.                                   *)
(*   None / a value v        : <<>> / <<v>>                                *)
(*   a raised exception      : its class name as a string, "none" if the   *)
(*                             operation returned                          *)
(*   a list                  : a TLA+ sequence (index k is element k+1)    *)
(***************************************************************************)
EXTENDS Integers, Sequences, FiniteSets, TLC

VARIABLES
    sq_data,      \* _Sequence.data: the materialised list
    sq_default,   \* _Sequence.default
    sq_last,      \* the last __getitem__/__setitem__ call and its outcome
    sq_written,   \* history: some __setitem__ has stored a value
    st_inputs,    \* the Flow objects of self.inputs.values(), in dict order
    st_outputs,   \* the Flow objects of self.outputs.values(), in dict order
    st_call,      \* the last GenericStorage(...) call and its outcome
    es,           \* the energy system: its grouped nodes and further flows
    CONSTRAINT_GROUPS,  \* the class attribute OperationalModel.CONSTRAINT_GROUPS
    m,            \* the OperationalModel and how its construction ended
    builds,       \* how many models this process has constructed so far
    last_call     \* the last operation on es or the model and its outcome

sq_vars == <<sq_data, sq_default, sq_last, sq_written>>
st_vars == <<st_inputs, st_outputs, st_call>>

m_vars == <<es, CONSTRAINT_GROUPS, m, builds, last_call>>

vars == <<sq_data, sq_default, sq_last, sq_written,
          st_inputs, st_outputs, st_call, es, CONSTRAINT_GROUPS, m, builds,
          last_call>>

None == <<>>
Some(v) == <<v>>

Max(a, b) == IF a >= b THEN a ELSE b

(***************************************************************************)
(* Python list primitives                                                  *)
(***************************************************************************)
\* [v] * n : n copies of v, the empty list when n <= 0
ListRepeat(v, n) == [i \in 1..n |-> v]

\* whether list[key] is a legal access: -len <= key < len
ListInRange(list, key) == (0 - Len(list)) <= key /\ key < Len(list)

\* the 1-based position list[key] denotes (negative keys count from the end)
ListPos(list, key) == IF key >= 0 THEN key + 1 ELSE Len(list) + key + 1

(***************************************************************************)
(* plumbing._Sequence                                                      *)
(***************************************************************************)
MaxKey == 3
Defaults == {10, 42}
Stored == {23}
Keys == (0 - MaxKey - 1)..MaxKey

\* mutation: the extension is sized by the distance of the key from 0
_Sequence_getitem_extend_abs(data, default, key) ==
    data \o ListRepeat(default,
                       (IF key < 0 THEN 0 - key ELSE key) - Len(data) + 1)

\* mutation: the extension is one slot short
_Sequence_getitem_extend_short(data, default, key) ==
    data \o ListRepeat(default, key - Len(data))

\* self.data.extend([self.default] * (key - len(self.data) + 1)) in __getitem__
_Sequence_getitem_extend(data, default, key) ==
    data \o ListRepeat(default, key - Len(data) + 1)

\* mutation: the extension ignores what is already materialised
_Sequence_setitem_extend_whole(data, default, key) ==
    data \o ListRepeat(default, key + 1)

\* self.data.extend([self.default] * (key - len(self.data) + 1)) in __setitem__
_Sequence_setitem_extend(data, default, key) ==
    data \o ListRepeat(default, key - Len(data) + 1)

\* _Sequence.__getitem__: the data afterwards, the exception and the value
_Sequence__getitem__(data, default, key) ==
    IF ListInRange(data, key)
    THEN [data |-> data, exc |-> "none", val |-> Some(data[ListPos(data, key)])]
    ELSE LET ext == _Sequence_getitem_extend(data, default, key)
         IN  IF ListInRange(ext, key)
             THEN [data |-> ext, exc |-> "none",
                   val |-> Some(ext[ListPos(ext, key)])]
             ELSE [data |-> ext, exc |-> "IndexError", val |-> None]

\* mutation: the slots of the extension are filled with the value written
_Sequence__setitem___fill(data, default, key, value) ==
    IF ListInRange(data, key)
    THEN [data |-> [data EXCEPT ![ListPos(data, key)] = value], exc |-> "none"]
    ELSE LET ext == _Sequence_setitem_extend(data, value, key)
         IN  IF ListInRange(ext, key)
             THEN [data |-> [ext EXCEPT ![ListPos(ext, key)] = value],
                   exc |-> "none"]
             ELSE [data |-> ext, exc |-> "IndexError"]

\* _Sequence.__setitem__: the data afterwards and the exception
_Sequence__setitem__(data, default, key, value) ==
    IF ListInRange(data, key)
    THEN [data |-> [data EXCEPT ![ListPos(data, key)] = value], exc |-> "none"]
    ELSE LET ext == _Sequence_setitem_extend(data, default, key)
         IN  IF ListInRange(ext, key)
             THEN [data |-> [ext EXCEPT ![ListPos(ext, key)] = value],
                   exc |-> "none"]
             ELSE [data |-> ext, exc |-> "IndexError"]

NoCall == [op |-> "new", key |-> 0, exc |-> "none", val |-> None,
           len0 |-> 0, data0 |-> <<>>]

\* x[key]
SeqGetItem ==
    \E key \in Keys :
        LET r == _Sequence__getitem__(sq_data, sq_default, key)
        IN  /\ sq_data' = r.data
            /\ sq_last' = [op |-> "get", key |-> key, exc |-> r.exc,
                           val |-> r.val, len0 |-> Len(sq_data),
                           data0 |-> sq_data]
            /\ UNCHANGED <<sq_default, sq_written, st_vars, m_vars>>

\* x[key] = value
SeqSetItem ==
    \E key \in Keys, value \in Stored :
        LET r == _Sequence__setitem__(sq_data, sq_default, key, value)
        IN  /\ sq_data' = r.data
            /\ sq_last' = [op |-> "set", key |-> key, exc |-> r.exc,
                           val |-> Some(value), len0 |-> Len(sq_data),
                           data0 |-> sq_data]
            /\ sq_written' = (sq_written \/ r.exc = "none")
            /\ UNCHANGED <<sq_default, st_vars, m_vars>>

(***************************************************************************)
(* Numbers.  Parameters and coefficients are exact rationals <<num, den>>  *)
(* with den > 0, in lowest terms.                                          *)
(***************************************************************************)
Abs(x) == IF x < 0 THEN 0 - x ELSE x

RECURSIVE GCD(_, _)
GCD(a, b) == IF b = 0 THEN a ELSE GCD(b, a % b)

Rat(n, d) ==
    LET g == GCD(Abs(n), Abs(d))
        sn == IF d < 0 THEN 0 - n ELSE n
    IN  <<sn \div g, Abs(d) \div g>>

RInt(n) == <<n, 1>>
RAdd(a, b) == Rat(a[1] * b[2] + b[1] * a[2], a[2] * b[2])
RSub(a, b) == Rat(a[1] * b[2] - b[1] * a[2], a[2] * b[2])
RMul(a, b) == Rat(a[1] * b[1], a[2] * b[2])
RDiv(a, b) == Rat(a[1] * b[2], a[2] * b[1])
RIsZero(a) == a[1] = 0
RIsPositive(a) == a[1] > 0
RLeq(a, b) == a[1] * b[2] <= b[1] * a[2]

(***************************************************************************)
(* A series parameter as solph's sequence() leaves it: an explicit list    *)
(* ([kind |-> "list", data]) or a wrapped scalar, a _Sequence              *)
(* ([kind |-> "Sequence", data, default]) whose data is what has been      *)
(* materialised so far.                                                    *)
(***************************************************************************)
ListOf(data) == [kind |-> "list", data |-> data, default |-> None]
Scalar(v) == [kind |-> "Sequence", data |-> <<>>, default |-> Some(v)]

\* len(series)
SeriesLen(s) == Len(s.data)

\* bool(series): a list and a UserList are true when they are not empty
SeriesTruthy(s) == Len(s.data) > 0

SequenceResult(s, r) ==
    [series |-> [s EXCEPT !.data = r.data], exc |-> r.exc, val |-> r.val]

\* series[key]: the series afterwards, the exception and the value
SeriesGet(s, key) ==
    IF s.kind = "Sequence"
    THEN SequenceResult(s, _Sequence__getitem__(s.data, s.default[1], key))
    ELSE IF ListInRange(s.data, key)
    THEN [series |-> s, exc |-> "none", val |-> Some(s.data[ListPos(s.data, key)])]
    ELSE [series |-> s, exc |-> "IndexError", val |-> None]

(***************************************************************************)
(* components.GenericStorage.__init__                                      *)
(* A Flow is [nominal_value, investment]; the keyword arguments are        *)
(* [nominal_capacity, investment, nominal_input_capacity_ratio,            *)
(*  nominal_output_capacity_ratio].                                        *)
(***************************************************************************)
MaxFlows == 1
Capacities == {0, 6}
Ratios == {2}
NominalValues == {5}
Investment == "Investment"

Opt(S) == {None} \cup {Some(v) : v \in S}

Flows == [nominal_value : Opt(NominalValues \cup {r * c : r \in Ratios,
                                                          c \in Capacities}),
          investment : Opt({Investment})]

\* flows as the topology collaborator supplies them
FreshFlows == [nominal_value : Opt(NominalValues), investment : Opt({Investment})]

StorageKwargs == [nominal_capacity : Opt(Capacities),
                  investment : Opt({Investment}),
                  nominal_input_capacity_ratio : Opt(Ratios),
                  nominal_output_capacity_ratio : Opt(Ratios)]

\* mutation: the check of investment against nominal_capacity is missing
GenericStorage_check_investment_missing(kw) == "none"

\* "if self.investment and self.nominal_capacity is not None: raise"
GenericStorage_check_investment(kw) ==
    IF kw.investment # None /\ kw.nominal_capacity # None
    THEN "AttributeError" ELSE "none"

\* the body of "for flow in self.inputs.values()": the exception it raises
\* and the flow as the body leaves it
GenericStorage_input_flow(kw, flow) ==
    IF kw.investment # None /\ flow.nominal_value # None
    THEN [exc |-> "AttributeError", flow |-> flow]
    ELSE IF flow.nominal_value # None /\ kw.nominal_input_capacity_ratio # None
    THEN [exc |-> "AttributeError", flow |-> flow]
    ELSE IF kw.investment = None /\ kw.nominal_input_capacity_ratio # None
    THEN IF kw.nominal_capacity = None
         THEN [exc |-> "TypeError", flow |-> flow]   \* ratio * None
         ELSE [exc |-> "none",
               flow |-> [flow EXCEPT !.nominal_value =
                            Some(kw.nominal_input_capacity_ratio[1]
                                 * kw.nominal_capacity[1])]]
    ELSE IF kw.investment # None
    THEN [exc |-> "none", flow |-> [flow EXCEPT !.investment = Some(Investment)]]
    ELSE [exc |-> "none", flow |-> flow]

\* the body of "for flow in self.outputs.values()"
GenericStorage_output_flow(kw, flow) ==
    IF kw.investment # None /\ flow.nominal_value # None
    THEN [exc |-> "AttributeError", flow |-> flow]
    ELSE IF flow.nominal_value # None /\ kw.nominal_output_capacity_ratio # None
    THEN [exc |-> "AttributeError", flow |-> flow]
    ELSE IF kw.investment = None /\ kw.nominal_output_capacity_ratio # None
    THEN IF kw.nominal_capacity = None
         THEN [exc |-> "TypeError", flow |-> flow]   \* ratio * None
         ELSE [exc |-> "none",
               flow |-> [flow EXCEPT !.nominal_value =
                            Some(kw.nominal_output_capacity_ratio[1]
                                 * kw.nominal_capacity[1])]]
    ELSE IF kw.investment # None
    THEN [exc |-> "none", flow |-> [flow EXCEPT !.investment = Some(Investment)]]
    ELSE [exc |-> "none", flow |-> flow]

\* the loop over the input flows from position i on; it stops at the first raise
RECURSIVE GenericStorage_inputs(_, _, _)
GenericStorage_inputs(kw, flows, i) ==
    IF i > Len(flows) THEN [exc |-> "none", flows |-> flows]
    ELSE LET r == GenericStorage_input_flow(kw, flows[i])
             fs == [flows EXCEPT ![i] = r.flow]
         IN  IF r.exc # "none" THEN [exc |-> r.exc, flows |-> fs]
             ELSE GenericStorage_inputs(kw, fs, i + 1)

RECURSIVE GenericStorage_outputs(_, _, _)
GenericStorage_outputs(kw, flows, i) ==
    IF i > Len(flows) THEN [exc |-> "none", flows |-> flows]
    ELSE LET r == GenericStorage_output_flow(kw, flows[i])
             fs == [flows EXCEPT ![i] = r.flow]
         IN  IF r.exc # "none" THEN [exc |-> r.exc, flows |-> fs]
             ELSE GenericStorage_outputs(kw, fs, i + 1)

\* GenericStorage.__init__: the exception and the flows afterwards
GenericStorage__init__(kw, inputs, outputs) ==
    IF GenericStorage_check_investment(kw) # "none"
    THEN [exc |-> GenericStorage_check_investment(kw),
          inputs |-> inputs, outputs |-> outputs]
    ELSE LET a == GenericStorage_inputs(kw, inputs, 1)
         IN  IF a.exc # "none"
             THEN [exc |-> a.exc, inputs |-> a.flows, outputs |-> outputs]
             ELSE LET b == GenericStorage_outputs(kw, outputs, 1)
                  IN  [exc |-> b.exc, inputs |-> a.flows, outputs |-> b.flows]

NoStorageCall == [op |-> "new", kw |-> [nominal_capacity |-> None,
                                        investment |-> None,
                                        nominal_input_capacity_ratio |-> None,
                                        nominal_output_capacity_ratio |-> None],
                  exc |-> "none", inputs0 |-> <<>>, outputs0 |-> <<>>]

\* the topology collaborator creates one more flow into the future storage
AddInputFlow ==
    \E f \in FreshFlows :
        /\ st_call.op = "new"
        /\ Len(st_inputs) < MaxFlows
        /\ st_inputs' = Append(st_inputs, f)
        /\ UNCHANGED <<st_outputs, st_call, sq_vars, m_vars>>

\* the topology collaborator creates one more flow out of the future storage
AddOutputFlow ==
    \E f \in FreshFlows :
        /\ st_call.op = "new"
        /\ Len(st_outputs) < MaxFlows
        /\ st_outputs' = Append(st_outputs, f)
        /\ UNCHANGED <<st_inputs, st_call, sq_vars, m_vars>>

\* the caller starts over with a new set of flows
DropFlows ==
    /\ st_call.op = "init"
    /\ st_inputs' = <<>>
    /\ st_outputs' = <<>>
    /\ st_call' = NoStorageCall
    /\ UNCHANGED <<sq_vars, m_vars>>

\* GenericStorage(inputs=..., outputs=..., **kw)
NewGenericStorage ==
    \E kw \in StorageKwargs :
        LET r == GenericStorage__init__(kw, st_inputs, st_outputs)
        IN  /\ st_inputs' = r.inputs
            /\ st_outputs' = r.outputs
            /\ st_call' = [op |-> "init", kw |-> kw, exc |-> r.exc,
                           inputs0 |-> st_inputs, outputs0 |-> st_outputs]
            /\ UNCHANGED <<sq_vars, m_vars>>

(***************************************************************************)
(* components.GenericCHP                                                   *)
(* A GenericCHP node holds back_pressure, Beta, the cache _alphas and the  *)
(* series attributes of its three flows: P_min_woDH, Eta_el_min_woDH,      *)
(* P_max_woDH, Eta_el_max_woDH (electrical output), Q_CW_min (heat output),*)
(* H_L_FG_share_max and H_L_FG_share_min (fuel input; None when the flow   *)
(* has no such attribute).                                                 *)
(***************************************************************************)
\* the series after series[0], ..., series[k-1] have been read
RECURSIVE SeriesReadAll(_, _)
SeriesReadAll(s, k) ==
    IF k <= 0 THEN s
    ELSE SeriesGet(SeriesReadAll(s, k - 1), k - 1).series

ElectricalAttrs == <<"P_min_woDH", "Eta_el_min_woDH", "P_max_woDH",
                     "Eta_el_max_woDH">>

AllRead == {"P_min_woDH", "Eta_el_min_woDH", "P_max_woDH", "Eta_el_max_woDH"}

\* x = np.linalg.solve(A, b) with A = [[1, pmin], [1, pmax]] and
\* b = [pmin / emin, pmax / emax]; read is what has been read of pass i when
\* the pass ends
Solve(pmin, emin, pmax, emax) ==
    IF RIsZero(emin)
    THEN [exc |-> "ZeroDivisionError", x |-> <<>>,
          read |-> {"P_min_woDH", "Eta_el_min_woDH", "P_max_woDH"}]
    ELSE IF RIsZero(emax)
    THEN [exc |-> "ZeroDivisionError", x |-> <<>>, read |-> AllRead]
    ELSE IF pmin = pmax
    THEN [exc |-> "LinAlgError", x |-> <<>>, read |-> AllRead]
    ELSE [exc |-> "none",
          x |-> <<RSub(RDiv(pmin, emin),
                       RMul(RDiv(RSub(RDiv(pmax, emax), RDiv(pmin, emin)),
                                 RSub(pmax, pmin)),
                            pmin)),
                  RDiv(RSub(RDiv(pmax, emax), RDiv(pmin, emin)),
                       RSub(pmax, pmin))>>,
          read |-> AllRead]

\* one pass of "for i in range(0, max_length)"
GenericCHP_solve(n, i) ==
    Solve(SeriesGet(n.P_min_woDH, i).val[1],
          SeriesGet(n.Eta_el_min_woDH, i).val[1],
          SeriesGet(n.P_max_woDH, i).val[1],
          SeriesGet(n.Eta_el_max_woDH, i).val[1])

\* the node after the passes 0..i-1 and the attributes in `last` of pass i
\* have been read
GenericCHP_read(n, i, last) ==
    [f \in DOMAIN n |->
        IF f \in AllRead
        THEN SeriesReadAll(n[f], IF f \in last THEN i + 1 ELSE i)
        ELSE n[f]]

\* the loop of _calculate_alphas from pass i on; alphas is [[...], [...]]
RECURSIVE GenericCHP_solve_from(_, _, _, _)
RECURSIVE GenericCHP_append(_, _, _, _, _)
GenericCHP_solve_from(n, i, max_length, alphas) ==
    IF i >= max_length
    THEN [exc |-> "none", node |-> GenericCHP_read(n, i, {}), alphas |-> alphas]
    ELSE GenericCHP_append(n, i, max_length, alphas, GenericCHP_solve(n, i))

\* alphas[0].append(x[0]); alphas[1].append(x[1]), unless the pass raised
GenericCHP_append(n, i, max_length, alphas, r) ==
    IF r.exc # "none"
    THEN [exc |-> r.exc, node |-> GenericCHP_read(n, i, r.read),
          alphas |-> alphas]
    ELSE GenericCHP_solve_from(n, i + 1, max_length,
             <<Append(alphas[1], r.x[1]), Append(alphas[2], r.x[2])>>)

\* self._alphas = alphas, unless the loop raised
GenericCHP_set_alphas(r) ==
    IF r.exc # "none" THEN [exc |-> r.exc, node |-> r.node]
    ELSE [exc |-> "none", node |-> [r.node EXCEPT !._alphas = Some(r.alphas)]]

\* mutation: the lengths are not compared
GenericCHP_check_lengths_unchecked(n, length, max_length) ==
    GenericCHP_set_alphas(
        GenericCHP_solve_from(
            n, 0, IF max_length = 0 THEN 1 ELSE max_length, <<<<>>, <<>>>>))

\* "if all(len(a) == max_length for a in attrs): ... else: raise ValueError"
GenericCHP_check_lengths(n, length, max_length) ==
    IF \A l \in length : l = max_length
    THEN GenericCHP_set_alphas(
             GenericCHP_solve_from(
                 n, 0, IF max_length = 0 THEN 1 ELSE max_length,
                 <<<<>>, <<>>>>))
    ELSE [exc |-> "ValueError", node |-> n]

\* GenericCHP._calculate_alphas: the exception and the node afterwards
GenericCHP_calculate_alphas(n) ==
    GenericCHP_check_lengths(
        n, {SeriesLen(n[ElectricalAttrs[j]]) : j \in 1..4},
        CHOOSE l \in {SeriesLen(n[ElectricalAttrs[j]]) : j \in 1..4} :
            \A k \in 1..4 : SeriesLen(n[ElectricalAttrs[k]]) <= l)

\* "return self._alphas", unless _calculate_alphas raised
GenericCHP_return_alphas(r) ==
    [exc |-> r.exc, node |-> r.node,
     val |-> IF r.exc = "none" THEN r.node._alphas[1] ELSE <<>>]

\* the property GenericCHP.alphas: the exception, the node afterwards and
\* the value returned
GenericCHP_alphas(n) ==
    IF n._alphas = None
    THEN GenericCHP_return_alphas(GenericCHP_calculate_alphas(n))
    ELSE [exc |-> "none", node |-> n, val |-> n._alphas[1]]

(***************************************************************************)
(* Rule evaluation.  A rule of a pyomo Var or Constraint is called once    *)
(* per index; it reads parameters of the node (which materialises wrapped  *)
(* scalars) and returns bounds or a relation, or raises.  A relation is    *)
(* [block, name, n, t, sense, prev, coef]: coef maps the variables of the  *)
(* expression to their coefficients and the relation is                    *)
(* "sum of coef[v] * v  sense  0".                                         *)
(***************************************************************************)
Raise(exc, node) ==
    [exc |-> exc, node |-> node, cons |-> {}, bounds |-> {}, fixed |-> {},
     mins |-> {}]

Return(node, cons) ==
    [exc |-> "none", node |-> node, cons |-> cons, bounds |-> {},
     fixed |-> {}, mins |-> {}]

Skip(node) == Return(node, {})

FieldResult(node, field, r) ==
    [exc |-> r.exc, node |-> [node EXCEPT ![field] = r.series], val |-> r.val]

OptionalFieldResult(node, field, r) ==
    [exc |-> r.exc, node |-> [node EXCEPT ![field] = Some(r.series)],
     val |-> r.val]

\* what n.alphas[k][t] gives once n.alphas has given r
AlphaAt(r, k, t) ==
    IF r.exc # "none" THEN [exc |-> r.exc, node |-> r.node, val |-> None]
    ELSE IF ~ListInRange(r.val[k + 1], t)
    THEN [exc |-> "IndexError", node |-> r.node, val |-> None]
    ELSE [exc |-> "none", node |-> r.node,
          val |-> Some(r.val[k + 1][ListPos(r.val[k + 1], t)])]

\* node.attr[t]: the exception, the node afterwards and the value
ReadAttr(node, attr, t) ==
    CASE attr = "alphas[0]" -> AlphaAt(GenericCHP_alphas(node), 0, t)
      [] attr = "alphas[1]" -> AlphaAt(GenericCHP_alphas(node), 1, t)
      [] attr = "H_L_FG_share_min" ->
             OptionalFieldResult(node, attr,
                                 SeriesGet(node.H_L_FG_share_min[1], t))
      [] OTHER -> FieldResult(node, attr, SeriesGet(node[attr], t))

\* the reads attrs[k][t], attrs[k+1][t], ... of one rule, in the order the
\* rule makes them, until one raises
RECURSIVE Read(_, _, _, _, _)
RECURSIVE ReadNext(_, _, _, _, _)
Read(node, attrs, k, t, vals) ==
    IF k > Len(attrs) THEN [exc |-> "none", node |-> node, vals |-> vals]
    ELSE ReadNext(attrs, k, t, vals, ReadAttr(node, attrs[k], t))

ReadNext(attrs, k, t, vals, r) ==
    IF r.exc # "none" THEN [exc |-> r.exc, node |-> r.node, vals |-> vals]
    ELSE Read(r.node, attrs, k + 1, t, Append(vals, r.val[1]))

Attrs(node, attrs, t) == Read(node, attrs, 1, t, <<>>)

\* the rule returns cons unless one of its reads raised
Emit(r, cons) ==
    IF r.exc # "none" THEN Raise(r.exc, r.node) ELSE Return(r.node, cons)

\* the rule raises exc after its reads, unless one of them raised before
RaiseAfter(r, exc) == Raise(IF r.exc # "none" THEN r.exc ELSE exc, r.node)

\* timeindex.freq.nanos / 3.6e12: a float, the hours of one step
Hours(h) == [kind |-> "float", val |-> h]

\* value[key] for what the model holds in timeincrement
Subscript(value, key) ==
    IF value.kind = "float"
    THEN [exc |-> "TypeError", val |-> None]   \* a float is not subscriptable
    ELSE [exc |-> SeriesGet(value, key).exc, val |-> SeriesGet(value, key).val]

NoTime == 0 - 1

\* the index list of Constraint(GROUP, TIMESTEPS, rule): node-major
PerNodeTime(family, group, N) ==
    [j \in 1..(Len(group) * N) |->
        <<family, group[((j - 1) \div N) + 1], (j - 1) % N>>]

\* the index list of Constraint(GROUP, rule)
PerNode(family, group) == [j \in 1..Len(group) |-> <<family, group[j], NoTime>>]

(***************************************************************************)
(* components.GenericStorageBlock and GenericInvestmentStorageBlock        *)
(***************************************************************************)
\* _storage_capacity_bound_rule of GenericStorageBlock
_storage_capacity_bound_rule(n, i, t) ==
    IF n.nominal_capacity = None
    THEN RaiseAfter(Attrs(n, <<"capacity_min">>, t), "TypeError")
    ELSE LET r == Attrs(n, <<"capacity_min", "capacity_max">>, t)
         IN  IF r.exc # "none" THEN Raise(r.exc, r.node)
             ELSE [Return(r.node, {}) EXCEPT !.bounds =
                     {[block |-> "GenericStorageBlock", var |-> "capacity",
                       n |-> i, t |-> t,
                       lb |-> Some(RMul(n.nominal_capacity[1], r.vals[1])),
                       ub |-> Some(RMul(n.nominal_capacity[1], r.vals[2]))]}]

\* mutation: the capacity of the first timestep is fixed
GenericStorageBlock_initial_capacity_first(mm, n, i) ==
    IF n.initial_capacity = None THEN Skip(n)
    ELSE IF mm.timesteps = <<>> THEN Raise("IndexError", n)
    ELSE IF n.nominal_capacity = None THEN Raise("TypeError", n)
    ELSE [Return(n, {}) EXCEPT !.fixed =
             {[block |-> "GenericStorageBlock", var |-> "capacity", n |-> i,
               t |-> mm.timesteps[1],
               value |-> RMul(n.initial_capacity[1], n.nominal_capacity[1])]}]

\* "if n.initial_capacity is not None: self.capacity[n, m.TIMESTEPS[-1]] = ...;
\*  .fix()" of GenericStorageBlock
GenericStorageBlock_initial_capacity(mm, n, i) ==
    IF n.initial_capacity = None THEN Skip(n)
    ELSE IF mm.timesteps = <<>> THEN Raise("IndexError", n)
    ELSE IF n.nominal_capacity = None THEN Raise("TypeError", n)
    ELSE [Return(n, {}) EXCEPT !.fixed =
             {[block |-> "GenericStorageBlock", var |-> "capacity", n |-> i,
               t |-> mm.timesteps[Len(mm.timesteps)],
               value |-> RMul(n.initial_capacity[1], n.nominal_capacity[1])]}]

\* _storage_balance_rule, the same text in both storage blocks
_storage_balance_rule(block, mm, n, i, t) ==
    LET first == Attrs(n, <<"capacity_loss", "inflow_conversion_factor">>, t)
        tau == Subscript(mm.timeincrement, t)
        second == Attrs(first.node, <<"outflow_conversion_factor">>, t)
    IN  IF first.exc # "none" THEN Raise(first.exc, first.node)
        ELSE IF tau.exc # "none" THEN Raise(tau.exc, first.node)
        ELSE IF second.exc # "none" THEN Raise(second.exc, second.node)
        ELSE IF RIsZero(second.vals[1])
        THEN Raise("ZeroDivisionError", second.node)
        ELSE Return(second.node,
               {[block |-> block, name |-> "balance", n |-> i, t |-> t,
                 sense |-> "==", prev |-> mm.previous_timesteps[t + 1],
                 coef |-> [capacity |-> RInt(1),
                           capacity_prev |->
                               RSub(RInt(0), RSub(RInt(1), first.vals[1])),
                           flow_in |->
                               RMul(RSub(RInt(0), first.vals[2]), tau.val[1]),
                           flow_out |->
                               RMul(RDiv(RInt(1), second.vals[1]),
                                    tau.val[1])]]})

\* sum([n.capacity_min[t] for t in m.TIMESTEPS]) from timestep t on
RECURSIVE SumCapacityMin(_, _, _, _)
RECURSIVE SumCapacityMinNext(_, _, _, _)
SumCapacityMin(n, t, N, acc) ==
    IF t >= N THEN [exc |-> "none", node |-> n, val |-> acc]
    ELSE SumCapacityMinNext(t, N, acc, ReadAttr(n, "capacity_min", t))

SumCapacityMinNext(t, N, acc, r) ==
    IF r.exc # "none" THEN [exc |-> r.exc, node |-> r.node, val |-> acc]
    ELSE SumCapacityMin(r.node, t + 1, N, RAdd(acc, r.val[1]))

\* the member test of MIN_INVESTSTORAGES: sum([...]) > 0
MIN_INVESTSTORAGES_member(mm, n, i) ==
    LET r == SumCapacityMin(n, 0, Len(mm.timesteps), RInt(0))
    IN  IF r.exc # "none" THEN Raise(r.exc, r.node)
        ELSE [Return(r.node, {}) EXCEPT !.mins =
                 IF RIsPositive(r.val) THEN {i} ELSE {}]

InvestRelation(name, i, t, sense, coef) ==
    [block |-> "GenericInvestmentStorageBlock", name |-> name, n |-> i,
     t |-> t, sense |-> sense, prev |-> NoTime, coef |-> coef]

\* _storage_investvar_bound_rule
_storage_investvar_bound_rule(n, i) ==
    [Return(n, {}) EXCEPT !.bounds =
        {[block |-> "GenericInvestmentStorageBlock", var |-> "invest",
          n |-> i, t |-> NoTime, lb |-> Some(RInt(0)),
          ub |-> n.investment[1].maximum]}]

\* _initial_capacity_invest_rule
_initial_capacity_invest_rule(mm, n, i) ==
    IF mm.timesteps = <<>> THEN Raise("IndexError", n)
    ELSE Return(n,
           {InvestRelation("initial_capacity", i,
                mm.timesteps[Len(mm.timesteps)], "==",
                [capacity |-> RInt(1),
                 invest |-> RSub(RInt(0), n.initial_capacity[1])])})

\* _storage_capacity_inflow_invest_rule
_storage_capacity_inflow_invest_rule(n, i) ==
    IF n.nominal_input_capacity_ratio = None THEN Raise("TypeError", n)
    ELSE Return(n,
           {InvestRelation("storage_capacity_inflow", i, NoTime, "==",
                [flow_invest_in |-> RInt(1),
                 invest |-> RSub(RInt(0), n.nominal_input_capacity_ratio[1])])})

\* _storage_capacity_outflow_invest_rule
_storage_capacity_outflow_invest_rule(n, i) ==
    IF n.nominal_output_capacity_ratio = None THEN Raise("TypeError", n)
    ELSE Return(n,
           {InvestRelation("storage_capacity_outflow", i, NoTime, "==",
                [flow_invest_out |-> RInt(1),
                 invest |-> RSub(RInt(0), n.nominal_output_capacity_ratio[1])])})

\* _max_capacity_invest_rule
_max_capacity_invest_rule(n, i, t) ==
    LET r == Attrs(n, <<"capacity_max">>, t)
    IN  Emit(r, {InvestRelation("max_capacity", i, t, "<=",
                     [capacity |-> RInt(1),
                      invest |-> RSub(RInt(0), r.vals[1])])})

\* _min_capacity_invest_rule
_min_capacity_invest_rule(n, i, t) ==
    LET r == Attrs(n, <<"capacity_min">>, t)
    IN  Emit(r, {InvestRelation("min_capacity", i, t, ">=",
                     [capacity |-> RInt(1),
                      invest |-> RSub(RInt(0), r.vals[1])])})

(***************************************************************************)
(* components.GenericCHPBlock                                              *)
(***************************************************************************)
\* the domains of the variables declared over (group, TIMESTEPS)
GenericCHPBlock_within ==
    [H_F |-> "NonNegativeReals", H_L_FG_max |-> "NonNegativeReals",
     H_L_FG_min |-> "NonNegativeReals", P_woDH |-> "NonNegativeReals",
     P |-> "NonNegativeReals", Q |-> "NonNegativeReals", Y |-> "Binary"]

CHPRelation(name, i, t, sense, coef) ==
    [block |-> "GenericCHPBlock", name |-> name, n |-> i, t |-> t,
     sense |-> sense, prev |-> NoTime, coef |-> coef]

\* _H_flow_rule, _Q_flow_rule, _P_flow_rule
_H_flow_rule(n, i, t) ==
    Return(n, {CHPRelation("H_flow", i, t, "==",
                   [H_F |-> RInt(1), flow_fuel |-> RInt(0 - 1)])})

_Q_flow_rule(n, i, t) ==
    Return(n, {CHPRelation("Q_flow", i, t, "==",
                   [Q |-> RInt(1), flow_heat |-> RInt(0 - 1)])})

_P_flow_rule(n, i, t) ==
    Return(n, {CHPRelation("P_flow", i, t, "==",
                   [P |-> RInt(1), flow_el |-> RInt(0 - 1)])})

_H_F_1_rule(n, i, t) ==
    LET r == Attrs(n, <<"alphas[0]", "alphas[1]">>, t)
    IN  Emit(r, {CHPRelation("H_F_1", i, t, "==",
                     [H_F |-> RInt(0 - 1), Y |-> r.vals[1],
                      P_woDH |-> r.vals[2]])})

_H_F_2_rule(n, i, t) ==
    LET r == Attrs(n, <<"alphas[0]", "alphas[1]", "Beta">>, t)
    IN  Emit(r, {CHPRelation("H_F_2", i, t, "==",
                     [H_F |-> RInt(0 - 1), Y |-> r.vals[1], P |-> r.vals[2],
                      Q |-> RMul(r.vals[2], r.vals[3])])})

_H_F_3_rule(n, i, t) ==
    LET r == Attrs(n, <<"P_max_woDH", "Eta_el_max_woDH">>, t)
    IN  IF r.exc = "none" /\ RIsZero(r.vals[2])
        THEN Raise("ZeroDivisionError", r.node)
        ELSE Emit(r, {CHPRelation("H_F_3", i, t, "<=",
                          [H_F |-> RInt(1),
                           Y |-> RSub(RInt(0), RDiv(r.vals[1], r.vals[2]))])})

\* mutation: the lower fuel limit is stated as an upper limit
_H_F_4_rule_leq(n, i, t) ==
    LET r == Attrs(n, <<"P_min_woDH", "Eta_el_min_woDH">>, t)
    IN  IF r.exc = "none" /\ RIsZero(r.vals[2])
        THEN Raise("ZeroDivisionError", r.node)
        ELSE Emit(r, {CHPRelation("H_F_4", i, t, "<=",
                          [H_F |-> RInt(1),
                           Y |-> RSub(RInt(0), RDiv(r.vals[1], r.vals[2]))])})

_H_F_4_rule(n, i, t) ==
    LET r == Attrs(n, <<"P_min_woDH", "Eta_el_min_woDH">>, t)
    IN  IF r.exc = "none" /\ RIsZero(r.vals[2])
        THEN Raise("ZeroDivisionError", r.node)
        ELSE Emit(r, {CHPRelation("H_F_4", i, t, ">=",
                          [H_F |-> RInt(1),
                           Y |-> RSub(RInt(0), RDiv(r.vals[1], r.vals[2]))])})

_H_L_FG_max_rule(n, i, t) ==
    LET r == Attrs(n, <<"H_L_FG_share_max">>, t)
    IN  Emit(r, {CHPRelation("H_L_FG_max_def", i, t, "==",
                     [H_L_FG_max |-> RInt(0 - 1), H_F |-> r.vals[1]])})

\* mutation: the rule never returns an equality
_Q_max_res_sense_always_leq(n) == "<="

\* "if n.back_pressure is True: return expr == 0 else: return expr <= 0"
_Q_max_res_sense(n) == IF n.back_pressure = TRUE THEN "==" ELSE "<="

_Q_max_res_rule(n, i, t) ==
    LET r == Attrs(n, <<"Q_CW_min">>, t)
    IN  Emit(r, {CHPRelation("Q_max_res", i, t, _Q_max_res_sense(n),
                     [P |-> RInt(1), Q |-> RInt(1), H_L_FG_max |-> RInt(1),
                      Y |-> r.vals[1], H_F |-> RInt(0 - 1)])})

\* bool(getattr(fuel_flow, 'H_L_FG_share_min', None))
H_L_FG_share_min_truthy(n) ==
    n.H_L_FG_share_min # None /\ SeriesTruthy(n.H_L_FG_share_min[1])

_H_L_FG_min_rule(n, i, t) ==
    IF H_L_FG_share_min_truthy(n)
    THEN LET r == Attrs(n, <<"H_L_FG_share_min">>, t)
         IN  Emit(r, {CHPRelation("H_L_FG_min_def", i, t, "==",
                          [H_L_FG_min |-> RInt(0 - 1), H_F |-> r.vals[1]])})
    ELSE Skip(n)                                     \* Constraint.Skip

_Q_min_res_rule(n, i, t) ==
    IF H_L_FG_share_min_truthy(n)
    THEN LET r == Attrs(n, <<"Q_CW_min">>, t)
         IN  Emit(r, {CHPRelation("Q_min_res", i, t, ">=",
                          [P |-> RInt(1), Q |-> RInt(1), H_L_FG_min |-> RInt(1),
                           Y |-> r.vals[1], H_F |-> RInt(0 - 1)])})
    ELSE Skip(n)                                     \* Constraint.Skip

(***************************************************************************)
(* components.ExtractionTurbineCHP and ExtractionTurbineCHPBlock           *)
(* A node holds the series conversion_factors[main output],                *)
(* conversion_factors[tapped output] and                                   *)
(* conversion_factor_full_condensation[main output] (which _create also    *)
(* binds to conversion_factor_full_condensation_sq), and the attributes    *)
(* flow_relation_index and main_flow_loss_index, which do not exist (None) *)
(* until _create assigns them.                                             *)
(***************************************************************************)
\* the series read for one element of the two lists, in reading order
IndexAttrs(field) ==
    IF field = "flow_relation_index"
    THEN <<"conversion_factors_main", "conversion_factors_tapped">>
    ELSE <<"conversion_factor_full_condensation", "conversion_factors_main",
           "conversion_factors_tapped">>

\* mutation: the quotient is taken the other way round
flow_relation_index_inverted(vals) == RDiv(vals[2], vals[1])

\* conversion_factors[main][t] / conversion_factors[tapped][t]
flow_relation_index(vals) == RDiv(vals[1], vals[2])

\* (conversion_factor_full_condensation_sq[t] - conversion_factors[main][t])
\* / conversion_factors[tapped][t]
main_flow_loss_index(vals) == RDiv(RSub(vals[1], vals[2]), vals[3])

\* "n.field = [... for t in m.TIMESTEPS]" from position k of timesteps on
RECURSIVE IndexList(_, _, _, _, _)
RECURSIVE IndexListNext(_, _, _, _, _)
IndexList(field, n, k, timesteps, acc) ==
    IF k > Len(timesteps)
    THEN [exc |-> "none", node |-> [n EXCEPT ![field] = Some(acc)]]
    ELSE IndexListNext(field, k, timesteps, acc,
                       Attrs(n, IndexAttrs(field), timesteps[k]))

IndexListNext(field, k, timesteps, acc, r) ==
    IF r.exc # "none" THEN [exc |-> r.exc, node |-> r.node]
    ELSE IF RIsZero(r.vals[Len(r.vals)])
    THEN [exc |-> "ZeroDivisionError", node |-> r.node]
    ELSE IndexList(field, r.node, k + 1, timesteps,
                   Append(acc, IF field = "flow_relation_index"
                               THEN flow_relation_index(r.vals)
                               ELSE main_flow_loss_index(r.vals)))

\* n.main_flow_loss_index = [...], once flow_relation_index has given r
ExtractionTurbineCHPBlock_loss_index(mm, r) ==
    IF r.exc # "none" THEN Raise(r.exc, r.node)
    ELSE Emit(IndexList("main_flow_loss_index", r.node, 1, mm.timesteps,
                        <<>>), {})

\* one pass of "for n in group:" of ExtractionTurbineCHPBlock._create
ExtractionTurbineCHPBlock_indices(mm, n) ==
    ExtractionTurbineCHPBlock_loss_index(mm,
        IndexList("flow_relation_index", n, 1, mm.timesteps, <<>>))

\* a relation of the block at index (i, t) over the flows of the turbine g
TurbineRelation(name, i, g, t, sense, coef) ==
    [block |-> "ExtractionTurbineCHPBlock", name |-> name, n |-> i, g |-> g,
     t |-> t, sense |-> sense, prev |-> NoTime, coef |-> coef]

\* the first index of "block.input_output_relation.add((n, t), ...)": n is
\* what "for n in group:" has left bound, the last node of the group
input_output_relation_index(mm, g) ==
    Len(mm.groups.ExtractionTurbineCHPBlock)

\* one pass of "for t in m.TIMESTEPS: for g in group:" of
\* _input_output_relation_rule
input_output_relation(mm, n, g, t, r) ==
    IF r.exc # "none" THEN Raise(r.exc, r.node)
    ELSE IF RIsZero(r.vals[1]) THEN Raise("ZeroDivisionError", r.node)
    ELSE Return(r.node,
           {TurbineRelation("input_output_relation",
                input_output_relation_index(mm, g), g, t, "==",
                [flow_in |-> RInt(1),
                 flow_main |-> RSub(RInt(0), RDiv(RInt(1), r.vals[1])),
                 flow_tapped |->
                     RSub(RInt(0),
                          RDiv(n.main_flow_loss_index[1][t + 1],
                               r.vals[1]))])})

_input_output_relation_rule(mm, n, g, t) ==
    input_output_relation(mm, n, g, t,
        Attrs(n, <<"conversion_factor_full_condensation">>, t))

\* one pass of "for t in m.TIMESTEPS: for g in group:" of
\* _out_flow_relation_rule
_out_flow_relation_rule(mm, n, g, t) ==
    Return(n, {TurbineRelation("out_flow_relation", g, g, t, ">=",
                   [flow_main |-> RInt(1),
                    flow_tapped |->
                        RSub(RInt(0), n.flow_relation_index[1][t + 1])])})

(***************************************************************************)
(* Block construction.  A block is attached to the model before _create    *)
(* runs, so every Var and Constraint assigned in _create is constructed at *)
(* once: its rule runs for every index, in index order, and the first      *)
(* exception ends _create.                                                 *)
(***************************************************************************)
\* mutation: setlb gets the max and setub the min
FlowVariable_bounds_swapped(f, e, t, r) ==
    IF r.exc # "none" THEN Raise(r.exc, r.node)
    ELSE [Return(r.node, {}) EXCEPT !.bounds =
            {IF f.nominal_value = None
             THEN [block |-> "OperationalModel", var |-> "flow", n |-> e,
                   t |-> t, within |-> "NonNegativeReals", value |-> None,
                   fixed |-> FALSE, lb |-> None, ub |-> None]
             ELSE [block |-> "OperationalModel", var |-> "flow", n |-> e,
                   t |-> t, within |-> "NonNegativeReals",
                   value |-> IF r.vals[1] = None THEN None
                             ELSE Some(RMul(r.vals[1], f.nominal_value[1])),
                   fixed |-> r.vals[1] # None /\ f.fixed,
                   lb |-> Some(RMul(r.vals[2], f.nominal_value[1])),
                   ub |-> Some(RMul(r.vals[3], f.nominal_value[1]))]}]

\* one pass of "for (o, i) in self.FLOWS: for t in self.TIMESTEPS:" of
\* OperationalModel.__init__ for the flow f of the edge e: the value, the
\* fixing and the bounds of the variable flow[o, i, t]
FlowVariable(f, e, t, r) ==
    IF r.exc # "none" THEN Raise(r.exc, r.node)
    ELSE [Return(r.node, {}) EXCEPT !.bounds =
            {IF f.nominal_value = None
             THEN [block |-> "OperationalModel", var |-> "flow", n |-> e,
                   t |-> t, within |-> "NonNegativeReals", value |-> None,
                   fixed |-> FALSE, lb |-> None, ub |-> None]
             ELSE [block |-> "OperationalModel", var |-> "flow", n |-> e,
                   t |-> t, within |-> "NonNegativeReals",
                   value |-> IF r.vals[1] = None THEN None
                             ELSE Some(RMul(r.vals[1], f.nominal_value[1])),
                   fixed |-> r.vals[1] # None /\ f.fixed,
                   lb |-> Some(RMul(r.vals[3], f.nominal_value[1])),
                   ub |-> Some(RMul(r.vals[2], f.nominal_value[1]))]}]

OperationalModel_flow(f, e, t) ==
    FlowVariable(f, e, t,
        Attrs(f, IF f.nominal_value = None THEN <<"actual_value">>
                 ELSE <<"actual_value", "max", "min">>, t))

\* the rule a block evaluates for one index of one of its components
Rule(block, family, mm, n, i, t) ==
    CASE family = "flow" -> OperationalModel_flow(n, i, t)
      [] family = "capacity_bound" -> _storage_capacity_bound_rule(n, i, t)
      [] family = "capacity_fix" -> GenericStorageBlock_initial_capacity(mm, n, i)
      [] family = "balance" -> _storage_balance_rule(block, mm, n, i, t)
      [] family = "MIN_INVESTSTORAGES" -> MIN_INVESTSTORAGES_member(mm, n, i)
      [] family = "invest_bound" -> _storage_investvar_bound_rule(n, i)
      [] family = "initial_capacity" -> _initial_capacity_invest_rule(mm, n, i)
      [] family = "storage_capacity_inflow" ->
             _storage_capacity_inflow_invest_rule(n, i)
      [] family = "storage_capacity_outflow" ->
             _storage_capacity_outflow_invest_rule(n, i)
      [] family = "max_capacity" -> _max_capacity_invest_rule(n, i, t)
      [] family = "min_capacity" -> _min_capacity_invest_rule(n, i, t)
      [] family = "H_flow" -> _H_flow_rule(n, i, t)
      [] family = "Q_flow" -> _Q_flow_rule(n, i, t)
      [] family = "P_flow" -> _P_flow_rule(n, i, t)
      [] family = "H_F_1" -> _H_F_1_rule(n, i, t)
      [] family = "H_F_2" -> _H_F_2_rule(n, i, t)
      [] family = "H_F_3" -> _H_F_3_rule(n, i, t)
      [] family = "H_F_4" -> _H_F_4_rule(n, i, t)
      [] family = "H_L_FG_max_def" -> _H_L_FG_max_rule(n, i, t)
      [] family = "Q_max_res" -> _Q_max_res_rule(n, i, t)
      [] family = "H_L_FG_min_def" -> _H_L_FG_min_rule(n, i, t)
      [] family = "Q_min_res" -> _Q_min_res_rule(n, i, t)
      [] family = "turbine_indices" -> ExtractionTurbineCHPBlock_indices(mm, n)
      [] family = "input_output_relation" ->
             _input_output_relation_rule(mm, n, i, t)
      [] family = "out_flow_relation" -> _out_flow_relation_rule(mm, n, i, t)

NoRules(nodes) ==
    [exc |-> "none", nodes |-> nodes, cons |-> {}, bounds |-> {},
     fixed |-> {}, mins |-> {}]

\* the rules at the indices items[j], items[j+1], ... until one raises
RECURSIVE RunRules(_, _, _, _, _)
RECURSIVE RunRulesNext(_, _, _, _, _, _)
RunRules(block, mm, items, j, st) ==
    IF j > Len(items) \/ st.exc # "none" THEN st
    ELSE RunRulesNext(block, mm, items, j, st,
             Rule(block, items[j][1], mm, st.nodes[items[j][2]],
                  items[j][2], items[j][3]))

\* a relation stored at an index replaces the one stored there before
\* (Constraint.add assigns to the dict of the component)
RunRulesNext(block, mm, items, j, st, r) ==
    RunRules(block, mm, items, j + 1,
        [exc |-> r.exc,
         nodes |-> [st.nodes EXCEPT ![items[j][2]] = r.node],
         cons |-> {c \in st.cons :
                      \A d \in r.cons :
                          <<c.name, c.n, c.t>> # <<d.name, d.n, d.t>>}
                    \cup r.cons,
         bounds |-> st.bounds \cup r.bounds,
         fixed |-> st.fixed \cup r.fixed,
         mins |-> st.mins \cup r.mins])

Indices(group) == [j \in 1..Len(group) |-> j]

\* GenericStorageBlock._create(group) for a group that is not None
GenericStorageBlock__create(mm, group) ==
    RunRules("GenericStorageBlock", mm,
        PerNodeTime("capacity_bound", Indices(group), Len(mm.timesteps))
          \o PerNode("capacity_fix", Indices(group))
          \o PerNodeTime("balance", Indices(group), Len(mm.timesteps)),
        1, NoRules(group))

\* the variables and constraints of GenericInvestmentStorageBlock._create,
\* once its sets INVESTSTORAGES (ALL), INITIAL_CAPACITY (INITIAL) and
\* MIN_INVESTSTORAGES (MIN) are there
GenericInvestmentStorageBlock_constraints(mm, ALL, INITIAL, MIN, sets) ==
    RunRules("GenericInvestmentStorageBlock", mm,
        PerNode("invest_bound", ALL)
          \o PerNodeTime("balance", ALL, Len(mm.timesteps))
          \o PerNode("initial_capacity", INITIAL)
          \o PerNode("storage_capacity_inflow", ALL)
          \o PerNode("storage_capacity_outflow", ALL)
          \o PerNodeTime("max_capacity", ALL, Len(mm.timesteps))
          \o PerNodeTime("min_capacity", MIN, Len(mm.timesteps)),
        1, sets)

\* the sets of GenericInvestmentStorageBlock._create
GenericInvestmentStorageBlock_sets(mm, group, sets) ==
    GenericInvestmentStorageBlock_constraints(
        mm, Indices(group),
        SelectSeq(Indices(group),
                  LAMBDA j : group[j].initial_capacity # None),
        SelectSeq(Indices(group), LAMBDA j : j \in sets.mins),
        sets)

\* GenericInvestmentStorageBlock._create(group) for a group that is not None
GenericInvestmentStorageBlock__create(mm, group) ==
    GenericInvestmentStorageBlock_sets(
        mm, group,
        RunRules("GenericInvestmentStorageBlock", mm,
                 PerNode("MIN_INVESTSTORAGES", Indices(group)), 1,
                 NoRules(group)))

\* GenericCHPBlock._create(group) for a group that is not None
GenericCHPBlock__create(mm, group) ==
    RunRules("GenericCHPBlock", mm,
        PerNodeTime("H_flow", Indices(group), Len(mm.timesteps))
          \o PerNodeTime("Q_flow", Indices(group), Len(mm.timesteps))
          \o PerNodeTime("P_flow", Indices(group), Len(mm.timesteps))
          \o PerNodeTime("H_F_1", Indices(group), Len(mm.timesteps))
          \o PerNodeTime("H_F_2", Indices(group), Len(mm.timesteps))
          \o PerNodeTime("H_F_3", Indices(group), Len(mm.timesteps))
          \o PerNodeTime("H_F_4", Indices(group), Len(mm.timesteps))
          \o PerNodeTime("H_L_FG_max_def", Indices(group), Len(mm.timesteps))
          \o PerNodeTime("Q_max_res", Indices(group), Len(mm.timesteps))
          \o PerNodeTime("H_L_FG_min_def", Indices(group), Len(mm.timesteps))
          \o PerNodeTime("Q_min_res", Indices(group), Len(mm.timesteps)),
        1, NoRules(group))

\* the index list of "for t in m.TIMESTEPS: for g in group:"
PerTimeNode(family, group, N) ==
    [j \in 1..(Len(group) * N) |->
        <<family, group[((j - 1) % Len(group)) + 1], (j - 1) \div Len(group)>>]

\* ExtractionTurbineCHPBlock._create(group) for a group that is not None
ExtractionTurbineCHPBlock__create(mm, group) ==
    RunRules("ExtractionTurbineCHPBlock", mm,
        PerNode("turbine_indices", Indices(group))
          \o PerTimeNode("input_output_relation", Indices(group),
                         Len(mm.timesteps))
          \o PerTimeNode("out_flow_relation", Indices(group),
                         Len(mm.timesteps)),
        1, NoRules(group))

\* the blocks of this repository; the other blocks of a model are solph's
ComponentBlocks ==
    {"GenericStorageBlock", "GenericInvestmentStorageBlock", "GenericCHPBlock",
     "ExtractionTurbineCHPBlock"}

\* block._create(group=...): a group of None returns at once, and so does
\* (as far as this model records) a block of solph.blocks
Block__create(block, mm, group) ==
    IF block \notin ComponentBlocks \/ group = <<>> THEN NoRules(group)
    ELSE IF block = "GenericStorageBlock"
    THEN GenericStorageBlock__create(mm, group)
    ELSE IF block = "GenericInvestmentStorageBlock"
    THEN GenericInvestmentStorageBlock__create(mm, group)
    ELSE IF block = "GenericCHPBlock"
    THEN GenericCHPBlock__create(mm, group)
    ELSE ExtractionTurbineCHPBlock__create(mm, group)

(***************************************************************************)
(* _objective_expression of the three blocks: the exception and the terms  *)
(* [block, n, var, coef] of the expression returned.                       *)
(***************************************************************************)
GenericStorageBlock__objective_expression(created, group) ==
    [exc |-> "none", terms |-> {}]

GenericCHPBlock__objective_expression(created, group) ==
    [exc |-> "none", terms |-> {}]

GenericInvestmentStorageBlock__objective_expression(created, group) ==
    IF ~created THEN [exc |-> "none", terms |-> {}]   \* no INVESTSTORAGES
    ELSE IF \E j \in 1..Len(group) : group[j].investment[1].ep_costs = None
    THEN [exc |-> "ValueError", terms |-> {}]
    ELSE [exc |-> "none",
          terms |-> {[block |-> "GenericInvestmentStorageBlock", n |-> j,
                      var |-> "invest",
                      coef |-> group[j].investment[1].ep_costs[1]] :
                     j \in 1..Len(group)}]

Block__objective_expression(block, created, group) ==
    IF block = "GenericInvestmentStorageBlock"
    THEN GenericInvestmentStorageBlock__objective_expression(created, group)
    ELSE IF block = "GenericStorageBlock"
    THEN GenericStorageBlock__objective_expression(created, group)
    ELSE IF block = "GenericCHPBlock"
    THEN GenericCHPBlock__objective_expression(created, group)
    ELSE [exc |-> "none", terms |-> {}]

(***************************************************************************)
(* plumbing.OperationalModel                                               *)
(* The model m records how the constructor ended (pc, exc and the step     *)
(* that raised), the time index, the blocks in creation order, the blocks  *)
(* whose _create declared their sets, and what the blocks of this          *)
(* repository added: relations, variable bounds, fixed values and the      *)
(* terms of the objective.  objectives lists the components the model      *)
(* holds under the name 'objective', component_log the removals and        *)
(* additions of that name during the last call of objective_function, and  *)
(* calls counts the calls of objective_function.                           *)
(***************************************************************************)
DefaultGroups ==
    <<"Bus", "LinearTransformer", "Storage", "InvestmentFlow",
      "InvestmentStorage", "Flow", "Discrete">>

NoModel ==
    [pc |-> "none", exc |-> "none", raised_in |-> "", timesteps |-> <<>>,
     timeincrement |-> Hours(RInt(1)), previous_timesteps |-> <<>>,
     flow |-> {}, blocks |-> <<>>, created |-> {}, constraints |-> {},
     bounds |-> {}, fixed |-> {}, objective |-> {}, objectives |-> <<>>,
     component_log |-> <<>>, calls |-> 0]

\* mutation: position 0 is not overwritten with the last timestep
previous_timesteps_unwrapped(timesteps) ==
    [exc |-> "none", val |-> [j \in 1..Len(timesteps) |-> timesteps[j] - 1]]

\* previous_timesteps = [x - 1 for x in self.timesteps]
\* previous_timesteps[0] = self.timesteps[-1]
previous_timesteps(timesteps) ==
    LET previous == [j \in 1..Len(timesteps) |-> timesteps[j] - 1]
    IN  IF ~ListInRange(timesteps, 0 - 1)
        THEN [exc |-> "IndexError", val |-> previous]
        ELSE [exc |-> "none",
              val |-> [previous EXCEPT
                          ![1] = timesteps[ListPos(timesteps, 0 - 1)]]]

Range(f) == {f[j] : j \in DOMAIN f}

\* what one pass of "for group in self._constraint_groups:" leaves once
\* block._create has given r
BlockCreated(mm, block, group, r) ==
    [mm EXCEPT
       !.exc = r.exc,
       !.raised_in = IF r.exc = "none" THEN "" ELSE "_create",
       !.blocks = Append(@, block),
       !.created = IF group = <<>> THEN @ ELSE @ \cup {block},
       !.groups = IF block \in ComponentBlocks
                  THEN [@ EXCEPT ![block] = r.nodes] ELSE @,
       !.constraints = @ \cup r.cons,
       !.bounds = @ \cup r.bounds,
       !.fixed = @ \cup r.fixed]

\* self.es.groups.get(group)
GroupOf(mm, block) ==
    IF block \in ComponentBlocks THEN mm.groups[block] ELSE <<>>

\* "for group in self._constraint_groups:" from position k on; add_component
\* refuses a name the model already has
RECURSIVE CreateBlocks(_, _, _)
CreateBlocks(_constraint_groups, k, mm) ==
    IF k > Len(_constraint_groups) \/ mm.exc # "none" THEN mm
    ELSE IF _constraint_groups[k] \in Range(mm.blocks)
    THEN [mm EXCEPT !.exc = "RuntimeError", !.raised_in = "add_component"]
    ELSE CreateBlocks(_constraint_groups, k + 1,
             BlockCreated(mm, _constraint_groups[k],
                 GroupOf(mm, _constraint_groups[k]),
                 Block__create(_constraint_groups[k], mm,
                               GroupOf(mm, _constraint_groups[k]))))

ObjectiveAdded(mm, r) ==
    [mm EXCEPT !.exc = r.exc,
               !.raised_in = IF r.exc = "none" THEN ""
                             ELSE "objective_function",
               !.objective = @ \cup r.terms]

\* objective_function: "for block in self.component_data_objects(): expr +=
\* block._objective_expression()" from position k on
RECURSIVE objective_function(_, _)
objective_function(mm, k) ==
    IF k > Len(mm.blocks) \/ mm.exc # "none" THEN mm
    ELSE objective_function(
             ObjectiveAdded(mm,
                 Block__objective_expression(
                     mm.blocks[k], mm.blocks[k] \in mm.created,
                     GroupOf(mm, mm.blocks[k]))),
             k + 1)

\* mutation: the component stays on the model
del_component_kept(mm) ==
    [mm EXCEPT !.component_log = Append(@, "del")]

\* self.del_component('objective')
del_component(mm) ==
    [mm EXCEPT !.objectives = <<>>, !.component_log = Append(@, "del")]

\* "expr = 0" of a call of objective_function, after "if update:
\* self.del_component('objective')"
objective_function_start(mm, update) ==
    [(IF update THEN del_component(mm) ELSE mm) EXCEPT
        !.objective = {}, !.calls = @ + 1]

\* "self.objective = po.Objective(sense=sense, expr=expr)": a name the model
\* does not hold is added; for a name it holds, pyomo either replaces the
\* component (implicit) or refuses the assignment
objective_function_assign(mm, implicit) ==
    IF mm.exc # "none" THEN mm
    ELSE IF mm.objectives # <<>> /\ ~implicit
    THEN [mm EXCEPT !.exc = "RuntimeError", !.raised_in = "objective"]
    ELSE [(IF mm.objectives # <<>> THEN del_component(mm) ELSE mm) EXCEPT
             !.objectives = Append(@, mm.objective),
             !.component_log = Append(@, "add")]

\* m.objective_function(update=update)
OperationalModel_objective_function(mm, update, implicit) ==
    objective_function_assign(
        objective_function(objective_function_start(mm, update), 1),
        implicit)

\* the sets of the model: TIMESTEPS and previous_timesteps
ModelSets(kwargs, previous) ==
    [NoModel EXCEPT
        !.pc = "constraints",
        !.exc = previous.exc,
        !.raised_in = IF previous.exc = "none" THEN ""
                      ELSE "previous_timesteps",
        !.timesteps = [j \in 1..kwargs.timeindex.periods |-> j - 1],
        !.timeincrement = Hours(kwargs.timeindex.freq),
        !.previous_timesteps = previous.val]

\* the model under construction also holds the nodes and flows of es
WithSystem(sets, system) ==
    [f \in DOMAIN sets \cup {"groups", "flows"} |->
        IF f \in {"groups", "flows"} THEN system[f] ELSE sets[f]]

FlowsSet(mm, r) ==
    [mm EXCEPT !.exc = r.exc,
               !.raised_in = IF r.exc = "none" THEN "" ELSE "flow",
               !.flows = r.nodes,
               !.flow = r.bounds]

\* self.flow = po.Var(self.FLOWS, self.TIMESTEPS, ...) and the loop that
\* sets values and bounds
FlowVariables(mm) ==
    IF mm.exc # "none" THEN mm
    ELSE FlowsSet(mm,
             RunRules("OperationalModel", mm,
                 PerNodeTime("flow", Indices(mm.flows), Len(mm.timesteps)),
                 1, NoRules(mm.flows)))

ModelBuilt(system, _constraint_groups, done) ==
    [CONSTRAINT_GROUPS |-> _constraint_groups,
     es |-> [system EXCEPT !.groups = done.groups, !.flows = done.flows],
     m |-> [f \in DOMAIN NoModel |->
               IF f = "pc" THEN (IF done.exc = "none" THEN "done" ELSE "error")
               ELSE done[f]]]

\* OperationalModel.__init__(es, timeindex=..., constraint_groups=...): the
\* model, the nodes of es and the class attribute CONSTRAINT_GROUPS afterwards
OperationalModel__init__(system, class_groups, kwargs) ==
    ModelBuilt(system, class_groups \o kwargs.constraint_groups,
        OperationalModel_objective_function(
            CreateBlocks(class_groups \o kwargs.constraint_groups, 1,
                FlowVariables(
                    WithSystem(
                        ModelSets(kwargs,
                            previous_timesteps(
                                [j \in 1..kwargs.timeindex.periods |-> j - 1])),
                        system))),
            FALSE, TRUE))

(***************************************************************************)
(* The energy systems a model is built over.  The nodes are what the       *)
(* constructors of GenericStorage and GenericCHP leave: a storage has one  *)
(* input and one output flow, and is grouped by component_grouping into    *)
(* GenericInvestmentStorageBlock when it has an Investment and into        *)
(* GenericStorageBlock otherwise; a series parameter is a list of          *)
(* `periods` values or a wrapped scalar.                                   *)
(***************************************************************************)
MaxN == 2
MaxNodes == 1

Filled(v, periods) == ListOf(ListRepeat(v, periods))

GenericStorageNode(capacity, ratio, initial, capacity_min, investment) ==
    [nominal_capacity |-> capacity,
     nominal_input_capacity_ratio |-> ratio,
     nominal_output_capacity_ratio |-> ratio,
     initial_capacity |-> initial,
     capacity_loss |-> Scalar(Rat(1, 10)),
     inflow_conversion_factor |-> Scalar(Rat(9, 10)),
     outflow_conversion_factor |-> Scalar(Rat(4, 5)),
     capacity_max |-> Scalar(RInt(1)),
     capacity_min |-> Scalar(capacity_min),
     investment |-> investment]

PlainStorages ==
    {GenericStorageNode(Some(RInt(10)), Some(Rat(1, 5)), ic, RInt(0), None) :
        ic \in Opt({Rat(1, 2)})}
    \cup {GenericStorageNode(None, None, None, RInt(0), None)}

InvestStorages ==
    {GenericStorageNode(None, Some(Rat(1, 5)), c[1], c[2],
         Some([maximum |-> Some(RInt(50)), ep_costs |-> c[3]])) :
        c \in {<<None, RInt(0), Some(RInt(7))>>,
               <<Some(Rat(1, 2)), Rat(1, 10), Some(RInt(7))>>,
               <<Some(Rat(1, 2)), Rat(1, 10), None>>}}

\* shape: how the four attributes of the electrical output are given
GenericCHPNode(periods, shape, back_pressure, Q_CW_min, share_min) ==
    LET Given(v, as_list) ==
            IF as_list THEN Filled(v, periods) ELSE Scalar(v)
    IN  [back_pressure |-> back_pressure,
         Beta |-> Filled(Rat(1, 5), periods),
         _alphas |-> None,
         P_min_woDH |-> Given(RInt(2), shape = "list"),
         Eta_el_min_woDH |-> Given(Rat(1, 2), shape # "scalar"),
         P_max_woDH |-> Given(RInt(4), shape # "scalar"),
         Eta_el_max_woDH |-> Given(Rat(2, 3), shape # "scalar"),
         Q_CW_min |-> Filled(Q_CW_min, periods),
         H_L_FG_share_max |-> Filled(Rat(1, 5), periods),
         H_L_FG_share_min |->
             CASE share_min = "absent" -> None
               [] share_min = "list" -> Some(Filled(Rat(1, 10), periods))
               [] share_min = "scalar" -> Some(Scalar(Rat(1, 10)))]

GenericCHPs(periods) ==
    {GenericCHPNode(periods, "list", bp, q, sm) :
        bp \in {TRUE, FALSE}, q \in {RInt(0), RInt(1)},
        sm \in {"absent", "list", "scalar"}}
    \cup {GenericCHPNode(periods, shape, FALSE, RInt(0), "absent") :
            shape \in {"scalar", "mixed"}}

\* the flow of a further edge of the graph (from a Source, say)
EdgeFlow(nominal_value, actual_value, fixed) ==
    [nominal_value |-> nominal_value, actual_value |-> actual_value,
     min |-> Scalar(RInt(0)), max |-> Scalar(RInt(1)), fixed |-> fixed]

EdgeFlows(periods) ==
    {EdgeFlow(None, Scalar(None), FALSE),
     EdgeFlow(None, Scalar(Rat(1, 2)), TRUE),
     EdgeFlow(Some(RInt(5)), Scalar(None), FALSE),
     EdgeFlow(Some(RInt(5)), Scalar(Rat(1, 2)), FALSE),
     EdgeFlow(Some(RInt(5)), Filled(Rat(1, 2), periods), TRUE)}

ExtractionTurbineCHPNode(main, tapped, full_condensation) ==
    [conversion_factors_main |-> main,
     conversion_factors_tapped |-> tapped,
     conversion_factor_full_condensation |-> full_condensation,
     flow_relation_index |-> None,
     main_flow_loss_index |-> None]

ExtractionTurbineCHPs(periods) ==
    {ExtractionTurbineCHPNode(Scalar(Rat(1, 2)), Scalar(Rat(3, 10)),
                              Scalar(Rat(1, 2))),
     ExtractionTurbineCHPNode(Filled(Rat(2, 5), periods),
                              Filled(Rat(1, 5), periods),
                              Filled(Rat(1, 2), periods))}

\* how many nodes each of the three groups holds, and how many further edges
\* the graph has
GroupSizes ==
    {c \in (0..MaxNodes) \X (0..MaxNodes) \X (0..MaxNodes) \X (0..MaxNodes) :
        c[1] + c[2] + c[3] + c[4] <= MaxNodes}

EnergySystems ==
    UNION {{[periods |-> periods,
             groups |-> [GenericStorageBlock |-> plain,
                         GenericInvestmentStorageBlock |-> invest,
                         GenericCHPBlock |-> chps,
                         ExtractionTurbineCHPBlock |-> <<>>],
             flows |-> flows] :
               flows \in [1..c[4] -> EdgeFlows(periods)],
               plain \in [1..c[1] -> PlainStorages],
               invest \in [1..c[2] -> InvestStorages],
               chps \in [1..c[3] -> GenericCHPs(periods)]} :
           periods \in 1..MaxN, c \in GroupSizes}

\* the system of the end-to-end example: one GenericStorage(
\* nominal_capacity=1000, capacity_loss=0.01, inflow_conversion_factor=0.9,
\* outflow_conversion_factor=0.93, capacity_max=0.9, initial_capacity=0)
\* over three timesteps, its inflow fixed to 100, 0, 0 and its outflow to 0
ScenarioStorage ==
    [GenericStorageNode(Some(RInt(1000)), None, Some(RInt(0)), RInt(0), None)
        EXCEPT !.capacity_loss = Scalar(Rat(1, 100)),
               !.inflow_conversion_factor = Scalar(Rat(9, 10)),
               !.outflow_conversion_factor = Scalar(Rat(93, 100)),
               !.capacity_max = Scalar(Rat(9, 10))]

ScenarioSystem ==
    [periods |-> 3,
     groups |-> [GenericStorageBlock |-> <<ScenarioStorage>>,
                 GenericInvestmentStorageBlock |-> <<>>,
                 GenericCHPBlock |-> <<>>,
                 ExtractionTurbineCHPBlock |-> <<>>],
     flows |-> <<EdgeFlow(Some(RInt(1)),
                          ListOf(<<RInt(100), RInt(0), RInt(0)>>), TRUE),
                 EdgeFlow(Some(RInt(1)),
                          ListOf(<<RInt(0), RInt(0), RInt(0)>>), TRUE)>>]

\* plain storages with the constructor's default capacity_loss of 0 and an
\* initial level, for a range of initial_capacity, capacity_min and
\* capacity_max (capacity_min <= capacity_max); the constructor checks none
\* of the three
LevelStorageNode(initial, capacity_min, capacity_max) ==
    [GenericStorageNode(Some(RInt(10)), None, Some(initial), capacity_min,
                        None)
        EXCEPT !.capacity_loss = Scalar(RInt(0)),
               !.inflow_conversion_factor = Scalar(Rat(1, 2)),
               !.outflow_conversion_factor = Scalar(Rat(1, 2)),
               !.capacity_max = Scalar(capacity_max)]

LevelStorages ==
    {LevelStorageNode(initial, lo, hi) :
        initial \in {RInt(0), Rat(1, 2), RInt(1)},
        lo \in {RInt(0), Rat(3, 5)}, hi \in {Rat(9, 10), RInt(1)}}

LevelSystems ==
    {[periods |-> periods,
      groups |-> [GenericStorageBlock |-> <<storage>>,
                  GenericInvestmentStorageBlock |-> <<>>,
                  GenericCHPBlock |-> <<>>,
                  ExtractionTurbineCHPBlock |-> <<>>],
      flows |-> <<>>] :
        periods \in 1..MaxN, storage \in LevelStorages}

NoNodes ==
    [periods |-> 1,
     groups |-> [GenericStorageBlock |-> <<>>,
                 GenericInvestmentStorageBlock |-> <<>>,
                 GenericCHPBlock |-> <<>>,
                 ExtractionTurbineCHPBlock |-> <<>>],
     flows |-> <<>>]

\* the energy systems of a process that builds several models: groups of
\* ExtractionTurbineCHP nodes
MaxTurbines == 2
MaxBuilds == 2

TurbineSystems ==
    UNION {{[periods |-> periods,
             groups |-> [GenericStorageBlock |-> <<>>,
                         GenericInvestmentStorageBlock |-> <<>>,
                         GenericCHPBlock |-> <<>>,
                         ExtractionTurbineCHPBlock |-> turbines],
             flows |-> <<>>] :
               turbines \in UNION {[1..k -> ExtractionTurbineCHPs(periods)] :
                                      k \in 0..MaxTurbines}} :
           periods \in 1..MaxN}

TurbineGroups == {<<>>, <<"ExtractionTurbineCHPBlock">>}

\* calls of objective_function on one model, the constructor's included
MaxCalls == 3

\* the constraint_groups a model is built with
ExtraGroups ==
    {<<>>, <<"GenericCHPBlock">>, <<"GenericInvestmentStorageBlock">>,
     <<"GenericStorageBlock", "GenericInvestmentStorageBlock",
       "GenericCHPBlock">>}

\* the hours of one step of the timeindex
Freqs == {RInt(1)}

\* before the first operation
NoOperation ==
    [op |-> "none", j |-> 0, extras |-> <<>>, exc |-> "none", val |-> <<>>,
     calculated |-> FALSE]

\* the constructor, called with constraint_groups=extras, has returned (or
\* raised): r is what it leaves
Assigned(r, extras) ==
    /\ m' = r.m
    /\ es' = r.es
    /\ CONSTRAINT_GROUPS' = r.CONSTRAINT_GROUPS
    /\ builds' = builds + 1
    /\ last_call' = [op |-> "OperationalModel", j |-> 0, extras |-> extras,
                     exc |-> r.m.exc, val |-> <<>>, calculated |-> FALSE]

\* m = OperationalModel(es, timeindex=..., constraint_groups=...), the first
\* model of the process
NewOperationalModel ==
    /\ m.pc = "none"
    /\ \E periods \in (0..MaxN) \cup {es.periods}, freq \in Freqs,
          extras \in ExtraGroups :
          Assigned(OperationalModel__init__(
                       es, CONSTRAINT_GROUPS,
                       [timeindex |-> [periods |-> periods, freq |-> freq],
                        constraint_groups |-> extras]),
                   extras)
    /\ UNCHANGED <<sq_vars, st_vars>>

\* m = OperationalModel(es, timeindex=..., constraint_groups=...) at any
\* point of a process, whatever it has constructed before
BuildModel ==
    /\ builds < MaxBuilds
    /\ \E periods \in 1..MaxN, freq \in Freqs, extras \in TurbineGroups :
          Assigned(OperationalModel__init__(
                       es, CONSTRAINT_GROUPS,
                       [timeindex |-> [periods |-> periods, freq |-> freq],
                        constraint_groups |-> extras]),
                   extras)
    /\ UNCHANGED <<sq_vars, st_vars>>

\* the property chp.alphas has returned r (or raised); calculated tells
\* whether it went through _calculate_alphas
AlphasReturned(j, calculated, r) ==
    /\ es' = [es EXCEPT !.groups.GenericCHPBlock[j] = r.node]
    /\ last_call' = [op |-> "alphas", j |-> j, extras |-> <<>>,
                     exc |-> r.exc, val |-> r.val, calculated |-> calculated]

\* chp.alphas, read by the caller before or after a model is built
GetAlphas ==
    /\ \E j \in DOMAIN es.groups.GenericCHPBlock :
          AlphasReturned(j, es.groups.GenericCHPBlock[j]._alphas = None,
                         GenericCHP_alphas(es.groups.GenericCHPBlock[j]))
    /\ UNCHANGED <<m, CONSTRAINT_GROUPS, builds, sq_vars, st_vars>>

\* m.objective_function(update=...) has returned or raised: r is the model
\* it leaves, which keeps how its constructor ended
ObjectiveReturned(update, implicit, r) ==
    /\ m' = [r EXCEPT !.exc = "none", !.raised_in = ""]
    /\ last_call' = [op |-> "objective_function", j |-> 0, extras |-> <<>>,
                     exc |-> r.exc, val |-> <<>>, calculated |-> FALSE,
                     update |-> update, implicit |-> implicit]

\* m.objective_function(update=...) on a constructed model
ObjectiveFunction ==
    /\ m.pc = "done"
    /\ m.calls < MaxCalls
    /\ \E update \in BOOLEAN, implicit \in BOOLEAN :
          ObjectiveReturned(update, implicit,
              OperationalModel_objective_function(
                  [m EXCEPT !.component_log = <<>>], update, implicit))
    /\ UNCHANGED <<es, CONSTRAINT_GROUPS, builds, sq_vars, st_vars>>

(***************************************************************************)
(* Specifications                                                          *)
(***************************************************************************)
SeqInit ==
    /\ sq_data = <<>>
    /\ sq_default \in Defaults
    /\ sq_last = NoCall
    /\ sq_written = FALSE
    /\ st_inputs = <<>>
    /\ st_outputs = <<>>
    /\ st_call = NoStorageCall
    /\ es = NoNodes
    /\ CONSTRAINT_GROUPS = DefaultGroups
    /\ m = NoModel
    /\ builds = 0
    /\ last_call = NoOperation

SeqNext == SeqGetItem \/ SeqSetItem

SpecSeq == SeqInit /\ [][SeqNext]_vars

StorageInit ==
    /\ sq_data = <<>>
    /\ sq_default = 0
    /\ sq_last = NoCall
    /\ sq_written = FALSE
    /\ st_inputs = <<>>
    /\ st_outputs = <<>>
    /\ st_call = NoStorageCall
    /\ es = NoNodes
    /\ CONSTRAINT_GROUPS = DefaultGroups
    /\ m = NoModel
    /\ builds = 0
    /\ last_call = NoOperation

StorageNext == AddInputFlow \/ AddOutputFlow \/ DropFlows \/ NewGenericStorage

SpecStorage == StorageInit /\ [][StorageNext]_vars

Init ==
    /\ sq_data = <<>>
    /\ sq_default = 0
    /\ sq_last = NoCall
    /\ sq_written = FALSE
    /\ st_inputs = <<>>
    /\ st_outputs = <<>>
    /\ st_call = NoStorageCall
    /\ es \in EnergySystems \cup {ScenarioSystem}
    /\ CONSTRAINT_GROUPS = DefaultGroups
    /\ m = NoModel
    /\ builds = 0
    /\ last_call = NoOperation

Next == NewOperationalModel \/ GetAlphas

Spec == Init /\ [][Next]_vars

ProcessInit ==
    /\ sq_data = <<>>
    /\ sq_default = 0
    /\ sq_last = NoCall
    /\ sq_written = FALSE
    /\ st_inputs = <<>>
    /\ st_outputs = <<>>
    /\ st_call = NoStorageCall
    /\ es \in TurbineSystems
    /\ CONSTRAINT_GROUPS = DefaultGroups
    /\ m = NoModel
    /\ builds = 0
    /\ last_call = NoOperation

ProcessNext == BuildModel \/ ObjectiveFunction

SpecProcess == ProcessInit /\ [][ProcessNext]_vars

LevelInit ==
    /\ sq_data = <<>>
    /\ sq_default = 0
    /\ sq_last = NoCall
    /\ sq_written = FALSE
    /\ st_inputs = <<>>
    /\ st_outputs = <<>>
    /\ st_call = NoStorageCall
    /\ es \in LevelSystems
    /\ CONSTRAINT_GROUPS = DefaultGroups
    /\ m = NoModel
    /\ builds = 0
    /\ last_call = NoOperation

LevelNext == NewOperationalModel

SpecLevels == LevelInit /\ [][LevelNext]_vars

(***************************************************************************)
(* Properties of GenericStorage.__init__                                   *)
(***************************************************************************)
HasNominalValue(flows) == \E i \in DOMAIN flows : flows[i].nominal_value # None

\* (a) both nominal_capacity and an investment descriptor are given
BothSizes(c) == c.kw.investment # None /\ c.kw.nominal_capacity # None

\* (b) a flow has a nominal_value while the capacity ratio of its side is set
DuplicateNominalValue(c) ==
    \/ HasNominalValue(c.inputs0) /\ c.kw.nominal_input_capacity_ratio # None
    \/ HasNominalValue(c.outputs0) /\ c.kw.nominal_output_capacity_ratio # None

\* (c) an investment descriptor is given and a flow carries a nominal_value
InvestmentWithNominalValue(c) ==
    /\ c.kw.investment # None
    /\ (HasNominalValue(c.inputs0) \/ HasNominalValue(c.outputs0))

\* C3: constructing a GenericStorage raises the configuration error
\* (AttributeError) in each of the cases (a), (b) and (c).
C3_ConfigurationError ==
    (/\ st_call.op = "init"
     /\ \/ BothSizes(st_call)
        \/ DuplicateNominalValue(st_call)
        \/ InvestmentWithNominalValue(st_call))
    => st_call.exc = "AttributeError"

Constructed == st_call.op = "init" /\ st_call.exc = "none"

NeitherSize(c) == c.kw.investment = None /\ c.kw.nominal_capacity = None

AllCarryNominalValue(flows) ==
    \A i \in DOMAIN flows : flows[i].nominal_value # None

\* C4 as stated: a constructed storage has exactly one of nominal_capacity
\* and investment, or neither while its flows already carry nominal values.
C4_ExactlyOneSize ==
    Constructed =>
        /\ ~BothSizes(st_call)
        /\ NeitherSize(st_call) =>
               /\ AllCarryNominalValue(st_call.inputs0)
               /\ AllCarryNominalValue(st_call.outputs0)

\* C4 as amended: a constructed storage never has both nominal_capacity and
\* investment; it has neither only if no capacity ratio is set for a side
\* that has a flow.
C4_NeverBothSizes ==
    Constructed =>
        /\ ~BothSizes(st_call)
        /\ NeitherSize(st_call) =>
               /\ st_call.inputs0 # <<>> =>
                      st_call.kw.nominal_input_capacity_ratio = None
               /\ st_call.outputs0 # <<>> =>
                      st_call.kw.nominal_output_capacity_ratio = None

\* a storage with neither size is constructed over flows without nominal value
C4_Witness ==
    /\ Constructed
    /\ NeitherSize(st_call)
    /\ st_call.inputs0 # <<>> /\ ~HasNominalValue(st_call.inputs0)
    /\ st_call.outputs0 # <<>> /\ ~HasNominalValue(st_call.outputs0)

(***************************************************************************)
(* Properties of _Sequence                                                 *)
(***************************************************************************)
\* C5: on a constant Sequence that was never written, reading index k >= 0
\* raises nothing and returns the default, whatever was read before, and
\* afterwards the slots 0..k all hold a value (the default).
C5_ReadReturnsDefault ==
    (sq_last.op = "get" /\ sq_last.key >= 0 /\ ~sq_written) =>
        /\ sq_last.exc = "none"
        /\ sq_last.val = Some(sq_default)
        /\ Len(sq_data) >= sq_last.key + 1
        /\ \A i \in 1..(sq_last.key + 1) : sq_data[i] = sq_default

\* a read beyond the materialised length, after an earlier read
C5_Witness ==
    /\ sq_last.op = "get" /\ sq_last.exc = "none" /\ ~sq_written
    /\ sq_last.len0 >= 1
    /\ sq_last.key >= sq_last.len0

\* C6 as stated: after a read or write at index k >= 0 the length is k+1.
C6_LengthIsKeyPlusOne ==
    (sq_last.op \in {"get", "set"} /\ sq_last.key >= 0) =>
        Len(sq_data) = sq_last.key + 1

\* C6 as amended: after a read or write at index k >= 0 the length is the
\* larger of the length before and k+1.
C6_LengthIsMax ==
    (sq_last.op \in {"get", "set"} /\ sq_last.key >= 0) =>
        Len(sq_data) = Max(sq_last.len0, sq_last.key + 1)

\* an access below the materialised length, and one that extends a
\* non-empty sequence
C6_Witness ==
    /\ sq_last.op = "set" /\ sq_last.key >= 0
    /\ sq_last.key + 1 < sq_last.len0
    /\ Len(sq_data) = sq_last.len0

(***************************************************************************)
(* Properties of the assembled model                                       *)
(***************************************************************************)
Built == m.pc = "done"

Relations(block, name, i, t) ==
    {c \in m.constraints :
        c.block = block /\ c.name = name /\ c.n = i /\ c.t = t}

StorageBlocks == {"GenericStorageBlock", "GenericInvestmentStorageBlock"}

\* the balance of the storage n of a block at timestep t as the documentation
\* of the blocks states it, with a duration of tau hours
BalanceOf(block, n, i, t, tau) ==
    [block |-> block, name |-> "balance", n |-> i, t |-> t, sense |-> "==",
     prev |-> IF t = 0 THEN Len(m.timesteps) - 1 ELSE t - 1,
     coef |-> [capacity |-> RInt(1),
               capacity_prev |->
                   RSub(RInt(0), RSub(RInt(1), n.capacity_loss.default[1])),
               flow_in |->
                   RSub(RInt(0),
                        RMul(n.inflow_conversion_factor.default[1], tau)),
               flow_out |->
                   RDiv(tau, n.outflow_conversion_factor.default[1])]]

\* C1: for every storage n handled by either storage block and every
\* timestep t the block has emitted exactly one balance equality
\* level[n,t] = level[n,previous(t)] * (1 - loss[t])
\*              - (outflow[n,t] / outflow_efficiency[t]) * duration[t]
\*              + (inflow[n,t] * inflow_efficiency[t]) * duration[t],
\* the same relation in both blocks.
C1_BalanceEmitted ==
    \A block \in StorageBlocks :
        block \in m.created =>
            \A i \in DOMAIN es.groups[block] :
                \A j \in DOMAIN m.timesteps :
                    Relations(block, "balance", i, m.timesteps[j]) =
                        {BalanceOf(block, es.groups[block][i], i,
                                   m.timesteps[j], m.timeincrement.val)}

\* C2: a model with N >= 1 timesteps has the timesteps 0..N-1 in order, and
\* previous(0) = N-1 and previous(t) = t-1 for every t in 1..N-1.
C2_PreviousIsCyclic ==
    (m.pc # "none" /\ Len(m.timesteps) >= 1) =>
        /\ \A j \in DOMAIN m.timesteps : m.timesteps[j] = j - 1
        /\ DOMAIN m.previous_timesteps = DOMAIN m.timesteps
        /\ m.previous_timesteps[1] = Len(m.timesteps) - 1
        /\ \A t \in 1..(Len(m.timesteps) - 1) : m.previous_timesteps[t + 1] = t - 1
        /\ Range(m.previous_timesteps) = Range(m.timesteps)

C2_Witness ==
    /\ Built
    /\ Len(m.timesteps) >= 2
    /\ m.previous_timesteps[1] = Len(m.timesteps) - 1

\* the relation that ties the investable size of a flow of the investment
\* storage n to invest[n]
InvestLink(name, flow, i, ratio) ==
    [block |-> "GenericInvestmentStorageBlock", name |-> name, n |-> i,
     t |-> NoTime, sense |-> "==", prev |-> NoTime,
     coef |-> [f \in {flow, "invest"} |->
                  IF f = flow THEN RInt(1) ELSE RSub(RInt(0), ratio)]]

\* C7: for every investment storage n the investment block has emitted the
\* equalities InvestmentFlow.invest[input(n), n] = invest[n] * r_in and
\* InvestmentFlow.invest[n, output(n)] = invest[n] * r_out.
C7_InvestLinksEmitted ==
    "GenericInvestmentStorageBlock" \in m.created =>
        \A i \in DOMAIN es.groups.GenericInvestmentStorageBlock :
            LET n == es.groups.GenericInvestmentStorageBlock[i]
            IN  /\ InvestLink("storage_capacity_inflow", "flow_invest_in", i,
                              n.nominal_input_capacity_ratio[1])
                       \in m.constraints
                /\ InvestLink("storage_capacity_outflow", "flow_invest_out", i,
                              n.nominal_output_capacity_ratio[1])
                       \in m.constraints

\* the terms of the objective that come from a block
ObjectiveOf(block) == {term \in m.objective : term.block = block}

\* C8: when every storage of the investment block has a per-unit cost the
\* block contributes the sum of invest[s] * ep_costs[s] to the objective;
\* when one lacks it the construction ends with the fatal error raised while
\* the objective is assembled; the other two blocks contribute nothing.
C8_ObjectiveContribution ==
    (m.pc \in {"done", "error"}
        /\ "GenericInvestmentStorageBlock" \in m.created) =>
        LET group == es.groups.GenericInvestmentStorageBlock
        IN  /\ ObjectiveOf("GenericStorageBlock") = {}
            /\ ObjectiveOf("GenericCHPBlock") = {}
            /\ IF \A i \in DOMAIN group : group[i].investment[1].ep_costs # None
               THEN ObjectiveOf("GenericInvestmentStorageBlock") =
                        {[block |-> "GenericInvestmentStorageBlock", n |-> i,
                          var |-> "invest",
                          coef |-> group[i].investment[1].ep_costs[1]] :
                         i \in DOMAIN group}
               ELSE m.exc = "ValueError" /\ m.raised_in = "objective_function"

\* values of the variables P, Q, H_L_FG_max, H_F and Y of one (CHP, timestep)
Assignments ==
    [P : 0..1, Q : 0..1, H_L_FG_max : 0..1, H_L_FG_min : 0..1, H_F : 0..4,
     Y : 0..1]

\* the value of the expression of a relation over the variables in S
RECURSIVE LinearValue(_, _, _)
LinearValue(coef, a, S) ==
    IF S = {} THEN RInt(0)
    ELSE RAdd(RMul(coef[CHOOSE v \in S : TRUE],
                   RInt(a[CHOOSE v \in S : TRUE])),
              LinearValue(coef, a, S \ {CHOOSE v \in S : TRUE}))

Compare(sense, value) ==
    CASE sense = "==" -> RIsZero(value)
      [] sense = "<=" -> RLeq(value, RInt(0))
      [] sense = ">=" -> RLeq(RInt(0), value)

Satisfies(a, c) == Compare(c.sense, LinearValue(c.coef, a, DOMAIN c.coef))

BackPressure(i) == es.groups.GenericCHPBlock[i].back_pressure = TRUE

\* Q_CW_min[t] of the heat output of the CHP i
Q_CW_min(i, t) == es.groups.GenericCHPBlock[i].Q_CW_min.data[t + 1]

\* P + Q + H_L_FG_max + sign * Q_CW_min * Y - H_F
HeatBalance(a, sign, qcw) ==
    RAdd(RInt(a.P + a.Q + a.H_L_FG_max - a.H_F),
         RMul(RInt(sign * a.Y), qcw))

\* C9 as stated: for a GenericCHP with back_pressure = True, every timestep t
\* and every assignment that satisfies the generated Q_max_res constraint,
\* P + Q + H_L_FG_max - Q_CW_min*Y - H_F = 0.
C9_EqualityMinus ==
    Built =>
        \A c \in m.constraints :
            (c.block = "GenericCHPBlock" /\ c.name = "Q_max_res"
                /\ BackPressure(c.n)) =>
                \A a \in Assignments :
                    Satisfies(a, c) =>
                        RIsZero(HeatBalance(a, 0 - 1, Q_CW_min(c.n, c.t)))

\* C9: for a GenericCHP with back_pressure = True in a model whose
\* construction completed, Q_max_res is generated for every timestep t as an
\* equality, and every assignment that satisfies it has
\* P + Q + H_L_FG_max + Q_CW_min*Y - H_F = 0.
C9_EqualityPlus ==
    (Built /\ "GenericCHPBlock" \in m.created) =>
        \A i \in DOMAIN es.groups.GenericCHPBlock :
            BackPressure(i) =>
                \A j \in DOMAIN m.timesteps :
                    /\ Cardinality(Relations("GenericCHPBlock", "Q_max_res", i,
                                             m.timesteps[j])) = 1
                    /\ \A c \in Relations("GenericCHPBlock", "Q_max_res", i,
                                          m.timesteps[j]) :
                          /\ c.sense = "=="
                          /\ \A a \in Assignments :
                                Satisfies(a, c) =>
                                    RIsZero(HeatBalance(a, 1,
                                                Q_CW_min(i, c.t)))

C9_Witness ==
    /\ Built
    /\ \E c \in m.constraints :
          /\ c.block = "GenericCHPBlock" /\ c.name = "Q_max_res"
          /\ BackPressure(c.n)
          /\ c.sense = "=="
          /\ ~RIsZero(Q_CW_min(c.n, c.t))
          /\ \E a \in Assignments : a.Y = 1 /\ Satisfies(a, c)

\* the fuel input of the CHP i declares a minimum flue-gas-loss share
DeclaresShareMin(i) == es.groups.GenericCHPBlock[i].H_L_FG_share_min # None

\* C10: in a model whose construction completed, a GenericCHP whose fuel
\* input declares no minimum flue-gas-loss share has H_L_FG_min_def and
\* Q_min_res for no timestep, and one whose fuel input declares it has both
\* for every timestep.
C10_MinConstraintsFollowDeclaration ==
    (Built /\ "GenericCHPBlock" \in m.created) =>
        \A i \in DOMAIN es.groups.GenericCHPBlock :
            \A j \in DOMAIN m.timesteps :
                \A name \in {"H_L_FG_min_def", "Q_min_res"} :
                    IF DeclaresShareMin(i)
                    THEN Relations("GenericCHPBlock", name, i,
                                   m.timesteps[j]) # {}
                    ELSE Relations("GenericCHPBlock", name, i,
                                   m.timesteps[j]) = {}

(***************************************************************************)
(* Properties of GenericCHP.alphas                                         *)
(***************************************************************************)
\* len(a) differs among the four attributes the alphas are calculated from
MismatchedLengths(n) ==
    \E j, k \in 1..4 :
        SeriesLen(n[ElectricalAttrs[j]]) # SeriesLen(n[ElectricalAttrs[k]])

\* C11: an access to the alphas of a GenericCHP whose P_min, Eta_min, P_max
\* and Eta_max do not all have the same length goes through the calculation,
\* raises ValueError and leaves the node with its cache unset, so that the
\* next access calculates again.
C11_MismatchRaisesValueError ==
    [][\A j \in DOMAIN es.groups.GenericCHPBlock :
          (/\ last_call'.op = "alphas"
           /\ last_call'.j = j
           /\ es.groups.GenericCHPBlock[j]._alphas = None
           /\ MismatchedLengths(es.groups.GenericCHPBlock[j]))
          => /\ last_call'.exc = "ValueError"
             /\ last_call'.calculated
             /\ es'.groups.GenericCHPBlock[j] = es.groups.GenericCHPBlock[j]
             /\ es'.groups.GenericCHPBlock[j]._alphas = None]_vars

C11_Witness ==
    /\ last_call.op = "alphas"
    /\ last_call.exc = "ValueError"
    /\ last_call.calculated
    /\ MismatchedLengths(es.groups.GenericCHPBlock[last_call.j])
    /\ es.groups.GenericCHPBlock[last_call.j]._alphas = None

(***************************************************************************)
(* Properties of ExtractionTurbineCHPBlock                                 *)
(***************************************************************************)
Turbines == es.groups.ExtractionTurbineCHPBlock

TurbinesBuilt == Built /\ "ExtractionTurbineCHPBlock" \in m.created

\* series[t] of a parameter of a node
ValueAt(series, t) == SeriesGet(series, t).val[1]

\* inflow = (main_outflow + tapped_outflow * main_flow_loss_index[t])
\*          / full_condensation_factor[t] for the turbine g
InputOutputOf(g, t) ==
    TurbineRelation("input_output_relation", g, g, t, "==",
        [flow_in |-> RInt(1),
         flow_main |->
             RSub(RInt(0),
                  RDiv(RInt(1),
                       ValueAt(Turbines[g].conversion_factor_full_condensation,
                               t))),
         flow_tapped |->
             RSub(RInt(0),
                  RDiv(Turbines[g].main_flow_loss_index[1][t + 1],
                       ValueAt(Turbines[g].conversion_factor_full_condensation,
                               t)))])

\* C12: for every ExtractionTurbineCHP g of the group and every timestep t
\* the block holds, registered for g, the equality
\* inflow[g,t] = (main_outflow[g,t] + tapped_outflow[g,t]
\*                * main_flow_loss_index[g][t]) / full_condensation_factor[g][t],
\* whatever the size of the group.
C12_InputOutputPerTurbine ==
    TurbinesBuilt =>
        \A g \in DOMAIN Turbines :
            \A j \in DOMAIN m.timesteps :
                Relations("ExtractionTurbineCHPBlock", "input_output_relation",
                          g, m.timesteps[j])
                    = {InputOutputOf(g, m.timesteps[j])}

\* main_outflow >= tapped_outflow * flow_relation_index[t] for the turbine g
OutFlowOf(g, t) ==
    TurbineRelation("out_flow_relation", g, g, t, ">=",
        [flow_main |-> RInt(1),
         flow_tapped |->
             RSub(RInt(0),
                  RDiv(ValueAt(Turbines[g].conversion_factors_main, t),
                       ValueAt(Turbines[g].conversion_factors_tapped, t)))])

\* the turbine of the example: main 0.5, tapped 0.3, full condensation 0.5
IsExampleTurbine(n) ==
    /\ n.conversion_factors_main.kind = "Sequence"
    /\ n.conversion_factors_main.default = <<Rat(1, 2)>>
    /\ n.conversion_factors_tapped.default = <<Rat(3, 10)>>
    /\ n.conversion_factor_full_condensation.default = <<Rat(1, 2)>>

PlainStorageNodes == es.groups.GenericStorageBlock

\* _create of GenericStorageBlock has gone through its loop over the group:
\* the block was created for storages that all have a nominal capacity, in
\* a model with at least one timestep
PlainStoragesCreated ==
    /\ m.pc # "none"
    /\ "GenericStorageBlock" \in m.created
    /\ Len(m.timesteps) >= 1
    /\ \A i \in DOMAIN PlainStorageNodes :
          PlainStorageNodes[i].nominal_capacity # None

\* the fixed values of the capacity variable of the storage i
FixedCapacity(i) ==
    {f \in m.fixed :
        f.block = "GenericStorageBlock" /\ f.var = "capacity" /\ f.n = i}

ScenarioModel ==
    /\ m.pc # "none"
    /\ Len(PlainStorageNodes) = 1
    /\ PlainStorageNodes[1].nominal_capacity = ScenarioStorage.nominal_capacity
    /\ Len(m.timesteps) = ScenarioSystem.periods
    /\ "GenericStorageBlock" \in m.created

\* the value the flow variable of the edge e is fixed to at timestep t
FixedFlow(e, t) ==
    (CHOOSE f \in m.flow : f.n = e /\ f.t = t /\ f.fixed).value[1]

\* capacity[t] as the balance relation c gives it from capacity[prev]
ForwardLevel(c, previous_level) ==
    RSub(RInt(0),
         RAdd(RMul(c.coef.capacity_prev, previous_level),
              RAdd(RMul(c.coef.flow_in, FixedFlow(1, c.t)),
                   RMul(c.coef.flow_out, FixedFlow(2, c.t)))))

\* the levels the example expects at the timesteps 0, 1 and 2
ScenarioLevels == <<RInt(0), RInt(90), Rat(891, 10)>>

\* C15: in the end-to-end example (capacity 1000, loss 0.01, efficiencies
\* 0.9 and 0.93, capacity_max 0.9, initial level 0, three timesteps of one
\* hour, inflow 100 at t = 0 only, no outflow) the model is assembled with
\* level[0] fixed to 0, and its balance relations give level[1] = 90 from
\* level[0] and level[2] = 89.1 from level[1].
C15_ScenarioLevels ==
    ScenarioModel =>
        /\ Built
        /\ FixedCapacity(1) =
               {[block |-> "GenericStorageBlock", var |-> "capacity", n |-> 1,
                 t |-> 0, value |-> ScenarioLevels[1]]}
        /\ \A t \in 1..2 :
              \E c \in Relations("GenericStorageBlock", "balance", 1, t) :
                  /\ c.prev = t - 1
                  /\ ForwardLevel(c, ScenarioLevels[t]) = ScenarioLevels[t + 1]

\* C16: for every plain storage whose level is fixed to L = initial_capacity
\* * nominal_capacity, the model holds a balance relation for each of the
\* timesteps 0..N-1, the relation of t starting from the level of
\* previous(t), and the level fixed to L is the one of timestep N-1 =
\* previous(0): applied forward from level[previous(0)] = L, the relations
\* end at the level that is fixed to L.
C16_RecurrenceCloses ==
    PlainStoragesCreated =>
        \A i \in DOMAIN PlainStorageNodes :
            PlainStorageNodes[i].initial_capacity # None =>
                /\ \A f \in FixedCapacity(i) :
                      /\ f.t = m.previous_timesteps[1]
                      /\ f.t = m.timesteps[Len(m.timesteps)]
                      /\ f.value =
                             RMul(PlainStorageNodes[i].initial_capacity[1],
                                  PlainStorageNodes[i].nominal_capacity[1])
                /\ \A j \in DOMAIN m.timesteps :
                      \E c \in Relations("GenericStorageBlock", "balance", i,
                                         m.timesteps[j]) :
                          /\ c.prev = m.previous_timesteps[j]
                          /\ c.coef.capacity = RInt(1)
                          /\ RIsPositive(RSub(RInt(0), c.coef.capacity_prev))

(***************************************************************************)
(* Properties of the capacity limits of GenericInvestmentStorageBlock      *)
(***************************************************************************)
InvestStorageNodes == es.groups.GenericInvestmentStorageBlock

\* capacity_min[0] + ... + capacity_min[t] of a storage
RECURSIVE MinFracSum(_, _)
MinFracSum(n, t) ==
    IF t < 0 THEN RInt(0)
    ELSE RAdd(ValueAt(n.capacity_min, t), MinFracSum(n, t - 1))

\* level[n,t] sense frac * invest[n]
CapacityLimit(name, i, t, sense, frac) ==
    InvestRelation(name, i, t, sense,
        [capacity |-> RInt(1), invest |-> RSub(RInt(0), frac)])

\* C17: the investment storage block holds level[n,t] <= max_frac[n][t] *
\* invest[n] for every storage n and timestep t, and level[n,t] >=
\* min_frac[n][t] * invest[n] for every timestep t of exactly those storages
\* whose min_frac sums to more than 0 over the timesteps.
C17_MinMaxCapacity ==
    ("GenericInvestmentStorageBlock" \in m.created /\ Len(m.timesteps) >= 1)
    => \A i \in DOMAIN InvestStorageNodes :
          \A j \in DOMAIN m.timesteps :
              /\ Relations("GenericInvestmentStorageBlock", "max_capacity", i,
                           m.timesteps[j])
                     = {CapacityLimit("max_capacity", i, m.timesteps[j], "<=",
                            ValueAt(InvestStorageNodes[i].capacity_max,
                                    m.timesteps[j]))}
              /\ Relations("GenericInvestmentStorageBlock", "min_capacity", i,
                           m.timesteps[j])
                     = IF RIsPositive(MinFracSum(InvestStorageNodes[i],
                                                 Len(m.timesteps) - 1))
                       THEN {CapacityLimit("min_capacity", i, m.timesteps[j],
                                 ">=",
                                 ValueAt(InvestStorageNodes[i].capacity_min,
                                         m.timesteps[j]))}
                       ELSE {}

(***************************************************************************)
(* Properties of the flow variables of OperationalModel                    *)
(***************************************************************************)
\* the constructor has gone through the loop over FLOWS and TIMESTEPS
FlowLoopDone ==
    /\ m.pc # "none"
    /\ m.raised_in \notin {"previous_timesteps", "flow"}

\* the variable flow[e, t] as documented, for the flow fl of the edge e
FlowOf(fl, e, t) ==
    [block |-> "OperationalModel", var |-> "flow", n |-> e, t |-> t,
     within |-> "NonNegativeReals",
     value |-> IF fl.nominal_value = None \/ ValueAt(fl.actual_value, t) = None
               THEN None
               ELSE Some(RMul(ValueAt(fl.actual_value, t),
                              fl.nominal_value[1])),
     fixed |-> /\ fl.nominal_value # None
               /\ ValueAt(fl.actual_value, t) # None
               /\ fl.fixed,
     lb |-> IF fl.nominal_value = None THEN None
            ELSE Some(RMul(ValueAt(fl.min, t), fl.nominal_value[1])),
     ub |-> IF fl.nominal_value = None THEN None
            ELSE Some(RMul(ValueAt(fl.max, t), fl.nominal_value[1]))]

\* C18: the model holds exactly one non-negative variable flow[e, t] per
\* edge e and timestep t; for an edge with a nominal value its bounds are
\* min[t] * nominal_value and max[t] * nominal_value, its value is
\* actual_value[t] * nominal_value when an actual value is given, and it is
\* fixed exactly when in addition the flow is marked fixed; for an edge
\* without a nominal value it has no bounds, no value and is not fixed.
C18_FlowVariables ==
    FlowLoopDone =>
        /\ \A f \in m.flow :
              f.n \in DOMAIN es.flows /\ f.t \in Range(m.timesteps)
        /\ \A e \in DOMAIN es.flows :
              \A j \in DOMAIN m.timesteps :
                  {f \in m.flow : f.n = e /\ f.t = m.timesteps[j]}
                      = {FlowOf(es.flows[e], e, m.timesteps[j])}

C18_Witness ==
    /\ FlowLoopDone
    /\ Len(m.timesteps) >= 2
    /\ \E f \in m.flow :
          /\ f.t = 1
          /\ f.fixed
          /\ f.value = Some(Rat(5, 2))
          /\ f.lb = Some(RInt(0))
          /\ f.ub = Some(RInt(5))

(***************************************************************************)
(* Properties of a process that constructs several models                  *)
(***************************************************************************)
\* C19: whatever models were constructed before and whatever extra groups
\* they were given, a construction instantiates the default block types once
\* each and in their declared order, followed by the block types given to
\* this construction and no others; no block name is refused, and a model
\* over a system without nodes of these types is built without error and
\* without relations.
C19_BlocksPerConstruction ==
    last_call.op = "OperationalModel" =>
        /\ m.blocks = DefaultGroups \o last_call.extras
        /\ m.raised_in # "add_component"
        /\ Turbines = <<>> => (Built /\ m.constraints = {})

\* C20: once alphas, flow_relation_index or main_flow_loss_index of a node
\* has a value, no later access or model build gives it another one.
C20_DerivedFieldsKept ==
    [][/\ \A j \in DOMAIN es.groups.GenericCHPBlock :
             es.groups.GenericCHPBlock[j]._alphas # None =>
                 es'.groups.GenericCHPBlock[j]._alphas
                     = es.groups.GenericCHPBlock[j]._alphas
       /\ \A g \in DOMAIN Turbines :
             /\ Turbines[g].flow_relation_index # None =>
                    es'.groups.ExtractionTurbineCHPBlock[g].flow_relation_index
                        = Turbines[g].flow_relation_index
             /\ Turbines[g].main_flow_loss_index # None =>
                    es'.groups.ExtractionTurbineCHPBlock[g].main_flow_loss_index
                        = Turbines[g].main_flow_loss_index]_vars

(***************************************************************************)
(* Properties of the fuel relations of GenericCHPBlock                     *)
(***************************************************************************)
CHPNodes == es.groups.GenericCHPBlock

\* GenericCHPBlock._create has run in a model whose timesteps the series of
\* the nodes cover
CHPBlockCreated ==
    /\ m.pc # "none"
    /\ "GenericCHPBlock" \in m.created
    /\ Len(m.timesteps) >= 1
    /\ Len(m.timesteps) <= es.periods

\* a0 + a1 * P = P / Eta
OnFuelLine(a0, a1, P, Eta) == RAdd(a0, RMul(a1, P)) = RDiv(P, Eta)

\* C21: for every GenericCHP and every timestep t of the model the relations
\* H_F_1 and H_F_2 are built, with alpha0[t] and alpha1[t] the solution of
\* alpha0 + alpha1 * P_min[t] = P_min[t] / Eta_min[t] and
\* alpha0 + alpha1 * P_max[t] = P_max[t] / Eta_max[t]; this includes nodes
\* whose inputs are given as scalars.
C21_AlphasForEveryTimestep ==
    CHPBlockCreated =>
        \A i \in DOMAIN CHPNodes :
            \A j \in DOMAIN m.timesteps :
                /\ \E c \in Relations("GenericCHPBlock", "H_F_1", i,
                                       m.timesteps[j]) :
                      /\ OnFuelLine(c.coef.Y, c.coef.P_woDH,
                                    ValueAt(CHPNodes[i].P_min_woDH, j - 1),
                                    ValueAt(CHPNodes[i].Eta_el_min_woDH, j - 1))
                      /\ OnFuelLine(c.coef.Y, c.coef.P_woDH,
                                    ValueAt(CHPNodes[i].P_max_woDH, j - 1),
                                    ValueAt(CHPNodes[i].Eta_el_max_woDH, j - 1))
                /\ \E c \in Relations("GenericCHPBlock", "H_F_2", i,
                                       m.timesteps[j]) :
                      /\ OnFuelLine(c.coef.Y, c.coef.P,
                                    ValueAt(CHPNodes[i].P_min_woDH, j - 1),
                                    ValueAt(CHPNodes[i].Eta_el_min_woDH, j - 1))
                      /\ OnFuelLine(c.coef.Y, c.coef.P,
                                    ValueAt(CHPNodes[i].P_max_woDH, j - 1),
                                    ValueAt(CHPNodes[i].Eta_el_max_woDH, j - 1))

MaxFuel == 7

\* the values of a domain this development enumerates
DomainValues(within) == IF within = "Binary" THEN 0..1 ELSE 0..MaxFuel

\* values of H_F and Y of one (CHP, timestep) within their domains
FuelAssignments ==
    [H_F : DomainValues(GenericCHPBlock_within.H_F),
     Y : DomainValues(GenericCHPBlock_within.Y)]

\* P_min / Eta_min and P_max / Eta_max of the CHP i at timestep t
MinFuel(i, t) ==
    RDiv(ValueAt(CHPNodes[i].P_min_woDH, t),
         ValueAt(CHPNodes[i].Eta_el_min_woDH, t))

MaxFuelOf(i, t) ==
    RDiv(ValueAt(CHPNodes[i].P_max_woDH, t),
         ValueAt(CHPNodes[i].Eta_el_max_woDH, t))

\* C22: for every GenericCHP, timestep t and assignment within the variable
\* domains that satisfies the generated H_F_3 and H_F_4 constraints: if
\* Y[t] = 0 then H_F[t] = 0, and if Y[t] = 1 then
\* P_min[t]/Eta_min[t] <= H_F[t] <= P_max[t]/Eta_max[t]; a model whose
\* construction completed holds both constraints for every CHP and timestep.
C22_FuelWithinLimits ==
    /\ \A c3, c4 \in m.constraints :
          (/\ c3.block = "GenericCHPBlock" /\ c3.name = "H_F_3"
           /\ c4.block = "GenericCHPBlock" /\ c4.name = "H_F_4"
           /\ c3.n = c4.n /\ c3.t = c4.t) =>
              \A a \in FuelAssignments :
                  (Satisfies(a, c3) /\ Satisfies(a, c4)) =>
                      /\ a.Y = 0 => a.H_F = 0
                      /\ a.Y = 1 =>
                            /\ RLeq(MinFuel(c3.n, c3.t), RInt(a.H_F))
                            /\ RLeq(RInt(a.H_F), MaxFuelOf(c3.n, c3.t))
    /\ (Built /\ "GenericCHPBlock" \in m.created) =>
          \A i \in DOMAIN CHPNodes :
              \A j \in DOMAIN m.timesteps :
                  /\ Relations("GenericCHPBlock", "H_F_3", i,
                               m.timesteps[j]) # {}
                  /\ Relations("GenericCHPBlock", "H_F_4", i,
                               m.timesteps[j]) # {}

\* a completed model with both limits of a CHP, which admit a fuel input
\* strictly between the limits with Y = 1 and reject one above the upper limit
C22_Witness ==
    /\ Built
    /\ \E c3, c4 \in m.constraints :
          /\ c3.block = "GenericCHPBlock" /\ c3.name = "H_F_3"
          /\ c4.block = "GenericCHPBlock" /\ c4.name = "H_F_4"
          /\ c3.n = c4.n /\ c3.t = c4.t
          /\ \E a \in FuelAssignments :
                /\ a.Y = 1 /\ Satisfies(a, c3) /\ Satisfies(a, c4)
                /\ ~RLeq(RInt(a.H_F), MinFuel(c3.n, c3.t))
                /\ ~RLeq(MaxFuelOf(c3.n, c3.t), RInt(a.H_F))
          /\ \E a \in FuelAssignments :
                a.Y = 1 /\ Satisfies(a, c4) /\ ~Satisfies(a, c3)

(***************************************************************************)
(* Properties of objective_function                                        *)
(***************************************************************************)
\* the sum of the objective contributions of the blocks of m as they are now
ObjectiveSum ==
    objective_function([m EXCEPT !.objective = {}], 1).objective

WrittenSlot ==
    IF sq_last.op = "set" /\ sq_last.exc = "none"
    THEN ListPos(sq_data, sq_last.key) ELSE 0

\* every slot but the written one holds what it held before the access, or
\* the default if the access created it
SlotsKept ==
    \A i \in 1..Len(sq_data) :
        i # WrittenSlot =>
            sq_data[i] = IF i <= sq_last.len0 THEN sq_last.data0[i]
                         ELSE sq_default

\* C24: after a read or write at an index k >= 0 of a wrapped-scalar
\* Sequence the length is max(previous length, k+1), so it never decreases;
\* the slots the extension created hold the default value (slot k of a write
\* holds the value written), and every other slot keeps its value.
C24_AccessKeepsSlots ==
    (sq_last.op \in {"get", "set"} /\ sq_last.key >= 0) =>
        /\ sq_last.exc = "none"
        /\ Len(sq_data) = Max(sq_last.len0, sq_last.key + 1)
        /\ Len(sq_data) >= sq_last.len0
        /\ SlotsKept
        /\ sq_last.op = "set" => sq_data[sq_last.key + 1] = sq_last.val[1]
        /\ sq_last.op = "get" => sq_last.val = Some(sq_data[sq_last.key + 1])

\* a write two or more slots beyond the end of a sequence that holds a
\* value written before
C24_Witness ==
    /\ sq_last.op = "set" /\ sq_last.exc = "none"
    /\ sq_last.len0 >= 1
    /\ sq_last.key > sq_last.len0
    /\ \E i \in 1..sq_last.len0 : sq_last.data0[i] \in Stored
    /\ \E i \in 1..sq_last.len0 : sq_last.data0[i] = sq_default

\* C28: a read or write at a negative index k never extends the sequence:
\* when -len <= k < 0 it accesses the existing slot counted from the end,
\* and when k < -len it raises IndexError and leaves length and contents
\* unchanged.
C28_NegativeIndex ==
    (sq_last.op \in {"get", "set"} /\ sq_last.key < 0) =>
        /\ Len(sq_data) = sq_last.len0
        /\ SlotsKept
        /\ (0 - sq_last.len0 <= sq_last.key) =>
              /\ sq_last.exc = "none"
              /\ sq_last.op = "get" =>
                    /\ sq_data = sq_last.data0
                    /\ sq_last.val =
                          Some(sq_last.data0[sq_last.len0 + sq_last.key + 1])
              /\ sq_last.op = "set" =>
                    /\ WrittenSlot = sq_last.len0 + sq_last.key + 1
                    /\ sq_data[WrittenSlot] = sq_last.val[1]
        /\ (sq_last.key < 0 - sq_last.len0) =>
              /\ sq_last.exc = "IndexError"
              /\ sq_data = sq_last.data0

\* a read below -len of a sequence that holds slots
C28_Witness ==
    /\ sq_last.op = "get" /\ sq_last.exc = "IndexError"
    /\ sq_last.len0 >= 1
    /\ sq_last.key < 0 - sq_last.len0

(***************************************************************************)
(* Properties of GenericStorage.__init__: what a raise leaves              *)
(***************************************************************************)
\* C25: if constructing a GenericStorage raises a configuration error
\* (AttributeError), the nominal_value and investment of every input and
\* output flow equal their values from before the constructor was called.
C25_ErrorLeavesFlows ==
    (st_call.op = "init" /\ st_call.exc = "AttributeError") =>
        /\ st_inputs = st_call.inputs0
        /\ st_outputs = st_call.outputs0

(***************************************************************************)
(* Properties of the levels of GenericStorageBlock                         *)
(***************************************************************************)
\* the bounds of the capacity variable of the storage i at timestep t
CapacityBounds(i, t) ==
    {b \in m.bounds :
        /\ b.block = "GenericStorageBlock" /\ b.var = "capacity"
        /\ b.n = i /\ b.t = t}

\* C26: for a plain storage with an initial level, the value the level of
\* the last timestep is fixed to, initial_capacity * nominal_capacity, lies
\* within the bounds of that variable,
\* [nominal_capacity * capacity_min[N-1], nominal_capacity * capacity_max[N-1]].
C26_FixedLevelWithinBounds ==
    PlainStoragesCreated =>
        \A i \in DOMAIN PlainStorageNodes :
            \A f \in FixedCapacity(i) :
                /\ CapacityBounds(i, f.t) # {}
                /\ \A b \in CapacityBounds(i, f.t) :
                      /\ RLeq(b.lb[1], f.value)
                      /\ RLeq(f.value, b.ub[1])

MaxLevel == 2

\* values of capacity, inflow and outflow of one storage at every timestep
LevelAssignments ==
    [DOMAIN m.timesteps ->
        [capacity : 0..MaxLevel, flow_in : 0..MaxLevel, flow_out : 0..MaxLevel]]

\* the assignment a satisfies the balance relation c of timestep j - 1
BalanceHolds(a, j, c) ==
    RIsZero(
        RAdd(RAdd(RMul(c.coef.capacity, RInt(a[j].capacity)),
                  RMul(c.coef.capacity_prev, RInt(a[c.prev + 1].capacity))),
             RAdd(RMul(c.coef.flow_in, RInt(a[j].flow_in)),
                  RMul(c.coef.flow_out, RInt(a[j].flow_out)))))

\* the hours of the timestep t the model was built with
Duration(t) == m.timeincrement.val

\* sum over the timesteps j..N of inflow * inflow_efficiency * duration
\* - (outflow / outflow_efficiency) * duration of the storage n
RECURSIVE NetStored(_, _, _)
NetStored(n, a, j) ==
    IF j > Len(m.timesteps) THEN RInt(0)
    ELSE RAdd(
           RSub(RMul(RMul(RInt(a[j].flow_in),
                          ValueAt(n.inflow_conversion_factor, j - 1)),
                     Duration(j - 1)),
                RMul(RDiv(RInt(a[j].flow_out),
                          ValueAt(n.outflow_conversion_factor, j - 1)),
                     Duration(j - 1))),
           NetStored(n, a, j + 1))

Lossless(n) ==
    \A j \in DOMAIN m.timesteps : RIsZero(ValueAt(n.capacity_loss, j - 1))

\* C27: for a plain storage with capacity loss 0 at every timestep the model
\* holds a balance equality for each timestep of the cyclic horizon, and
\* every assignment that satisfies them all has sum over t of
\* inflow[t] * inflow_efficiency[t] * duration[t] equal to sum over t of
\* (outflow[t] / outflow_efficiency[t]) * duration[t].
C27_LosslessCycleConserves ==
    PlainStoragesCreated =>
        \A i \in DOMAIN PlainStorageNodes :
            Lossless(PlainStorageNodes[i]) =>
                /\ \A j \in DOMAIN m.timesteps :
                      Relations("GenericStorageBlock", "balance", i,
                                m.timesteps[j]) # {}
                /\ \A a \in LevelAssignments :
                      (\A j \in DOMAIN m.timesteps :
                          \A c \in Relations("GenericStorageBlock", "balance",
                                              i, m.timesteps[j]) :
                              BalanceHolds(a, j, c)) =>
                          RIsZero(NetStored(PlainStorageNodes[i], a, 1))

====
